---------------------------- MODULE Spec2Model ----------------------------
(***************************************************************************)
(* SimBrief MCP server: the OAuth authorization-code flow with signed      *)
(* approval cookies (google-handler, oauth-utils, allowed-users).          *)
(*                                                                         *)
(* Strings are sequences of one-character strings, so that splitting,      *)
(* trimming, percent-decoding and hex encoding are computed the way the    *)
(* code computes them.                                                     *)
(***************************************************************************)
EXTENDS Integers, Sequences, FiniteSets, TLC

(***************************************************************************)
(* Bounds of the model.                                                    *)
(***************************************************************************)
\* Length in bytes of the modelled MAC tag (HMAC-SHA-256 has 32).
MacLen == 2
\* Longest cookie header enumerated exhaustively over HeaderAlphabet.
MaxHeaderLen == 3
\* Most grants the provider's store is followed for.
MaxGrants == 1
\* Longest array of ICAO codes enumerated element by element.
MaxArrayLen == 2
\* Longest VATSIM feed enumerated entry by entry.
MaxFeedLen == 2
\* Longest state parameter of a client enumerated character by character.
MaxStateLen == 2
\* Number of callbacks answered at the same time.
MaxAttempts == 2
\* Longest navlog of a flight plan.
MaxNavlogLen == 11
\* Most NOTAMs of one airport.
MaxNotams == 6
\* Most SIGMETs of a flight plan.
MaxSigmets == 6

(***************************************************************************)
(* Characters and JavaScript values.                                       *)
(***************************************************************************)
\* The grave accent, code point 96 (the lexer accepts no string holding it).
Grave == "<grave>"

\* Code points 32..126, in order.
PrintableAscii ==
  << " ", "!", "\"", "#", "$", "%", "&", "'", "(", ")", "*", "+", ",", "-", ".", "/",
     "0", "1", "2", "3", "4", "5", "6", "7", "8", "9", ":", ";", "<", "=", ">", "?",
     "@", "A", "B", "C", "D", "E", "F", "G", "H", "I", "J", "K", "L", "M", "N", "O",
     "P", "Q", "R", "S", "T", "U", "V", "W", "X", "Y", "Z", "[", "\\", "]", "^", "_",
     Grave, "a", "b", "c", "d", "e", "f", "g", "h", "i", "j", "k", "l", "m", "n", "o",
     "p", "q", "r", "s", "t", "u", "v", "w", "x", "y", "z", "{", "|", "}", "~" >>

\* A control character other than tab, line feed and carriage return.
ControlChar == "<ctl>"
\* A character outside ASCII.
NonAscii == "<u>"
\* A character outside Latin-1: the euro sign, code point 8364.
Euro == "<euro>"

\* String.fromCharCode for one decoded UTF-8 byte below 128.
FromCharCode(b) ==
  IF b \in 32..126 THEN PrintableAscii[b - 31]
  ELSE IF b = 9 THEN "\t"
  ELSE IF b = 10 THEN "\n"
  ELSE IF b = 13 THEN "\r"
  ELSE ControlChar

\* charCodeAt / the byte TextEncoder writes for the character.
CharCode(c) ==
  IF c = "\t" THEN 9
  ELSE IF c = "\n" THEN 10
  ELSE IF c = "\r" THEN 13
  ELSE IF c = ControlChar THEN 1
  ELSE IF c = NonAscii THEN 233
  ELSE IF c = Euro THEN 8364
  ELSE 31 + (CHOOSE i \in 1..Len(PrintableAscii) : PrintableAscii[i] = c)

\* The value `undefined` where a string is expected.
Undefined == << "undefined" >>

\* JavaScript truthiness of a string-or-undefined.
Truthy(s) == s # Undefined /\ s # << >>

WhiteSpace == { " ", "\t", "\n", "\r" }
LineTerminator == { "\n", "\r" }
HexDigits == << "0", "1", "2", "3", "4", "5", "6", "7", "8", "9",
                "a", "b", "c", "d", "e", "f" >>
UpperHexDigits == << "0", "1", "2", "3", "4", "5", "6", "7", "8", "9",
                     "A", "B", "C", "D", "E", "F" >>
IsHexDigit(c) == \E i \in 1..16 : HexDigits[i] = c \/ UpperHexDigits[i] = c
HexValue(c) == (CHOOSE i \in 1..16 : HexDigits[i] = c \/ UpperHexDigits[i] = c) - 1

\* A returned value, or a thrown exception.
Return(v) == [threw |-> FALSE, val |-> v]
Throw(e) == [threw |-> TRUE, val |-> e]

(***************************************************************************)
(* String primitives of the platform.                                      *)
(***************************************************************************)
RECURSIVE TrimStart(_)
TrimStart(s) ==
  IF s # << >> /\ Head(s) \in WhiteSpace THEN TrimStart(Tail(s)) ELSE s

RECURSIVE TrimEnd(_)
TrimEnd(s) ==
  IF s # << >> /\ s[Len(s)] \in WhiteSpace
  THEN TrimEnd(SubSeq(s, 1, Len(s) - 1)) ELSE s

\* String.prototype.trim
Trim(s) == TrimEnd(TrimStart(s))

\* String.prototype.split(sep) for a one-character separator, reading s
\* from position from: the piece up to the next separator, then the pieces
\* after it; a sequence of strings, never empty.
RECURSIVE SplitFrom(_, _, _)
SplitFrom(s, sep, from) ==
  LET found == { n \in from..Len(s) : s[n] = sep }
  IN  IF found = {} THEN << SubSeq(s, from, Len(s)) >>
      ELSE LET at == CHOOSE n \in found : \A m \in found : n <= m
           IN  << SubSeq(s, from, at - 1) >> \o SplitFrom(s, sep, at + 1)

Split(s, sep) == SplitFrom(s, sep, 1)

\* Array destructuring [a, b] = parts: a missing element is undefined.
Element(parts, i) == IF i <= Len(parts) THEN parts[i] ELSE Undefined

\* Number of continuation bytes a UTF-8 lead byte announces; 0 when the
\* byte cannot start a multi-byte sequence.
Utf8Continuations(b) ==
  IF b \in 194..223 THEN 1
  ELSE IF b \in 224..239 THEN 2
  ELSE IF b \in 240..244 THEN 3
  ELSE 0

\* Whether s starts with a percent escape %hh.
StartsWithEscape(s) ==
  Len(s) >= 3 /\ s[1] = "%" /\ IsHexDigit(s[2]) /\ IsHexDigit(s[3])
EscapeByte(s) == 16 * HexValue(s[2]) + HexValue(s[3])

\* Whether s starts with n escapes that are UTF-8 continuation bytes.
RECURSIVE StartsWithContinuations(_, _)
StartsWithContinuations(s, n) ==
  IF n = 0 THEN TRUE
  ELSE /\ StartsWithEscape(s)
       /\ EscapeByte(s) \in 128..191
       /\ StartsWithContinuations(SubSeq(s, 4, Len(s)), n - 1)

\* decodeURIComponent: URIError on a % that does not start a valid escape
\* or on bytes that are not UTF-8.
RECURSIVE decodeURIComponent(_)
decodeURIComponent(s) ==
  IF s = << >> THEN Return(<< >>)
  ELSE IF Head(s) # "%"
  THEN LET rest == decodeURIComponent(Tail(s))
       IN  IF rest.threw THEN rest ELSE Return(<< Head(s) >> \o rest.val)
  ELSE IF ~StartsWithEscape(s) THEN Throw("URIError")
  ELSE LET b == EscapeByte(s)
           n == Utf8Continuations(b)
           after == SubSeq(s, 4, Len(s))
       IN  IF b < 128
           THEN LET rest == decodeURIComponent(after)
                IN  IF rest.threw THEN rest
                    ELSE Return(<< FromCharCode(b) >> \o rest.val)
           ELSE IF n = 0 \/ ~StartsWithContinuations(after, n)
           THEN Throw("URIError")
           ELSE LET rest == decodeURIComponent(SubSeq(after, 3 * n + 1, Len(after)))
                IN  IF rest.threw THEN rest
                    ELSE Return(<< NonAscii >> \o rest.val)

\* TextEncoder.encode, one byte per modelled character.
RECURSIVE Encode(_)
Encode(s) == IF s = << >> THEN << >> ELSE << CharCode(Head(s)) >> \o Encode(Tail(s))

(***************************************************************************)
(* Web Crypto HMAC.  The tag is a deterministic function of the key bytes  *)
(* and the data bytes with a fixed length; it is modelled as a keyed       *)
(* rolling hash over the key, a separator and the data.                    *)
(***************************************************************************)
RECURSIVE Power(_, _)
Power(b, n) == IF n = 0 THEN 1 ELSE b * Power(b, n - 1)

MacSpace == Power(256, MacLen)

RECURSIVE MacFold(_, _)
MacFold(h, bytes) ==
  IF bytes = << >> THEN h
  ELSE MacFold((h * 113 + Head(bytes) + 1) % MacSpace, Tail(bytes))

\* The n big-endian bytes of v.
RECURSIVE ToBytes(_, _)
ToBytes(v, n) ==
  IF n = 0 THEN << >> ELSE ToBytes(v \div 256, n - 1) \o << v % 256 >>

\* crypto.subtle.sign("HMAC", key, data)
Hmac(key, data) == ToBytes(MacFold(MacFold(MacFold(11, key.raw), << 256 >>), data), MacLen)

(***************************************************************************)
(* oauth-utils: signing helpers.                                           *)
(***************************************************************************)
\* getSigningKey: imports the UTF-8 bytes of the secret as an HMAC key.
getSigningKey(encryptionKey) == [algorithm |-> "HMAC", raw |-> Encode(encryptionKey)]

\* As ByteToHex, without the padStart: one digit for a byte below 16.
ByteToHexUnpadded(b) ==
  IF b < 16 THEN << HexDigits[b + 1] >>
  ELSE << HexDigits[(b \div 16) + 1], HexDigits[(b % 16) + 1] >>

\* b.toString(16).padStart(2, "0")
ByteToHex(b) == << HexDigits[(b \div 16) + 1], HexDigits[(b % 16) + 1] >>

RECURSIVE JoinHex(_)
JoinHex(bytes) ==
  IF bytes = << >> THEN << >> ELSE ByteToHex(Head(bytes)) \o JoinHex(Tail(bytes))

\* signData: the tag of data, each byte as two lowercase hex digits.
signData(key, data) == JoinHex(Hmac(key, Encode(data)))

\* signatureHex.match(/.{1,2}/g): the runs of one or two characters that are
\* not line terminators, left to right; the empty sequence stands for null.
RECURSIVE MatchPairs(_)
MatchPairs(s) ==
  IF s = << >> THEN << >>
  ELSE IF Head(s) \in LineTerminator THEN MatchPairs(Tail(s))
  ELSE IF Len(s) >= 2 /\ s[2] \notin LineTerminator
  THEN << SubSeq(s, 1, 2) >> \o MatchPairs(SubSeq(s, 3, Len(s)))
  ELSE << << Head(s) >> >> \o MatchPairs(Tail(s))

\* Value of the longest prefix of hex digits of s, and whether there is one.
RECURSIVE HexPrefix(_, _, _)
HexPrefix(s, acc, any) ==
  IF s # << >> /\ IsHexDigit(Head(s))
  THEN HexPrefix(Tail(s), 16 * acc + HexValue(Head(s)), TRUE)
  ELSE [nan |-> ~any, num |-> acc]

\* parseInt(s, 16): leading white space, a sign and a 0x prefix are skipped;
\* NaN when no hex digit follows.
parseInt16(s) ==
  LET t == TrimStart(s)
      negative == t # << >> /\ Head(t) = "-"
      u == IF t # << >> /\ Head(t) \in { "-", "+" } THEN Tail(t) ELSE t
      v == IF Len(u) >= 2 /\ u[1] = "0" /\ u[2] \in { "x", "X" }
           THEN SubSeq(u, 3, Len(u)) ELSE u
      p == HexPrefix(v, 0, FALSE)
  IN  IF p.nan THEN p ELSE [nan |-> FALSE, num |-> IF negative THEN 0 - p.num ELSE p.num]

\* The element a Uint8Array stores for a number: NaN is 0, others modulo 256.
ToUint8(n) == IF n.nan THEN 0 ELSE n.num % 256

RECURSIVE MapToUint8(_)
MapToUint8(pairs) ==
  IF pairs = << >> THEN << >>
  ELSE << ToUint8(parseInt16(Head(pairs))) >> \o MapToUint8(Tail(pairs))

\* verifySignature: TypeError when match() is null; otherwise
\* crypto.subtle.verify compares the tag of data with the decoded bytes.
verifySignature(key, signatureHex, data) ==
  IF MatchPairs(signatureHex) = << >> THEN Throw("TypeError")
  ELSE Return(MapToUint8(MatchPairs(signatureHex)) = Hmac(key, Encode(data)))

(***************************************************************************)
(* oauth-utils: cookies.                                                   *)
(***************************************************************************)
\* The object {}.
EmptyObject == [n \in {} |-> << >>]

\* cookies[name]
Lookup(cookies, name) == IF name \in DOMAIN cookies THEN cookies[name] ELSE Undefined

\* parseCookieHeader: the forEach over cookieHeader.split(";"), from the
\* pieces still to visit and the object built so far.
RECURSIVE ParsePieces(_, _)
ParsePieces(pieces, cookies) ==
  IF pieces = << >> THEN Return(cookies)
  ELSE LET parts == Split(Trim(Head(pieces)), "=")
           name == Element(parts, 1)
           value == Element(parts, 2)
       IN  IF Truthy(name) /\ Truthy(value)
           THEN LET decoded == decodeURIComponent(value)
                IN  IF decoded.threw THEN decoded
                    ELSE ParsePieces(Tail(pieces), (name :> decoded.val) @@ cookies)
           ELSE ParsePieces(Tail(pieces), cookies)

parseCookieHeader(cookieHeader) == ParsePieces(Split(cookieHeader, ";"), EmptyObject)

\* The header is absent: headers.get() returns null.
Null == << "null" >>

ClientPrefix == << "c", "l", "i", "e", "n", "t", "_" >>
ApprovedSuffix == << "_", "a", "p", "p", "r", "o", "v", "e", "d" >>
SignatureSuffix == << "_", "s", "i", "g", "n", "a", "t", "u", "r", "e" >>
TrueLiteral == << "t", "r", "u", "e" >>

\* `client_${clientId}_approved` and `client_${clientId}_signature`
ApprovedCookieName(clientId) == ClientPrefix \o clientId \o ApprovedSuffix
SignatureCookieName(clientId) == ClientPrefix \o clientId \o SignatureSuffix

\* clientIdAlreadyApproved(request, clientId, encryptionKey)
clientIdAlreadyApproved(request, clientId, encryptionKey) ==
  LET cookieHeader == request.cookie
  IN  IF cookieHeader = Null \/ cookieHeader = << >> THEN Return(FALSE)
      ELSE LET parsed == parseCookieHeader(cookieHeader)
           IN  IF parsed.threw THEN parsed
               ELSE LET approvalCookie == Lookup(parsed.val, ApprovedCookieName(clientId))
                        signatureCookie == Lookup(parsed.val, SignatureCookieName(clientId))
                    IN  IF ~Truthy(approvalCookie) \/ ~Truthy(signatureCookie)
                        THEN Return(FALSE)
                        ELSE LET isValid == verifySignature(getSigningKey(encryptionKey),
                                                            signatureCookie, approvalCookie)
                             IN  IF isValid.threw THEN isValid
                                 ELSE Return(isValid.val /\ approvalCookie = TrueLiteral)

(***************************************************************************)
(* State.                                                                  *)
(***************************************************************************)
VARIABLES
  COOKIE_ENCRYPTION_KEY,  \* env: the signing secret in force
  ALLOWED_USERNAMES,      \* allowed-users: the configured allow-list
  issued,                 \* approval cookies sent to browsers so far, with the secret that signed them
  grants,                 \* the provider's store: grants made by completeAuthorization
  req,                    \* the request being answered
  resp,                   \* its response
  calls,                  \* the outbound calls made while answering it, in order
  call,                   \* a utility function applied on its own: the function and its arguments
  ret,                    \* what it returned
  redirects,              \* the states this server placed in redirects to the upstream provider
  inflight,               \* the callbacks being answered at the same time: where each one is, and its local values
  fetching                \* the call of fetchVatsimData under way: where it is, its timer and the time passed

vars == << COOKIE_ENCRYPTION_KEY, ALLOWED_USERNAMES, issued, grants, req, resp, calls, call, ret, redirects, inflight, fetching >>

(***************************************************************************)
(* allowed-users.                                                          *)
(***************************************************************************)
Leonnwankwo == << "l", "e", "o", "n", "n", "w", "a", "n", "k", "w", "o" >>
Leonchike == << "l", "e", "o", "n", "c", "h", "i", "k", "e" >>

\* The list the module is shipped with.
ShippedAllowList == { Leonnwankwo, Leonchike }

\* ASCII lower case of a string.
RECURSIVE Lower(_)
Lower(s) ==
  IF s = << >> THEN << >>
  ELSE << IF CharCode(Head(s)) \in 65..90 THEN FromCharCode(CharCode(Head(s)) + 32)
          ELSE Head(s) >> \o Lower(Tail(s))

\* As checkUserIsAllowed, with the list not consulted.
checkUserIsAllowedOpen(username) == TRUE

\* As checkUserIsAllowed, comparing without regard to case.
checkUserIsAllowedIgnoringCase(username) ==
  IF Cardinality(ALLOWED_USERNAMES) = 0 THEN TRUE
  ELSE \E allowed \in ALLOWED_USERNAMES : Lower(allowed) = Lower(username)

\* checkUserIsAllowed(username)
checkUserIsAllowed(username) ==
  IF Cardinality(ALLOWED_USERNAMES) = 0 THEN TRUE
  ELSE username \in ALLOWED_USERNAMES

\* The sentence of the page that names the user; markup and styling left out.
DeniedBefore == << "T", "h", "e", " ", "u", "s", "e", "r", " " >>
DeniedAfter == << " ", "i", "s", " ", "n", "o", "t", " ", "a", "u", "t", "h", "o", "r", "i", "z", "e", "d" >>

NoLocation == [url |-> "none"]
NoForm == [enc |-> "none"]

\* getAuthDeniedResponse(username)
getAuthDeniedResponse(username) ==
  [status |-> 403, page |-> "Access Denied",
   text |-> DeniedBefore \o username \o DeniedAfter,
   location |-> NoLocation, setCookie |-> << >>, form |-> NoForm]

(***************************************************************************)
(* JSON and base64 texts.  A text is kept as the value it encodes; a text  *)
(* that is not the encoding of anything makes the decoder throw.           *)
(***************************************************************************)
JsonNull == [type |-> "null"]

\* The characters JSON.stringify writes for one character of a string.
QuoteOfChar(c) ==
  IF c = "\"" THEN << "\\", "\"" >>
  ELSE IF c = "\\" THEN << "\\", "\\" >>
  ELSE IF c = "\n" THEN << "\\", "n" >>
  ELSE IF c = "\r" THEN << "\\", "r" >>
  ELSE IF c = "\t" THEN << "\\", "t" >>
  ELSE IF c = ControlChar THEN << "\\", "u", "0", "0", "0", "1" >>
  ELSE << c >>

\* The text of a string between the quotes JSON.stringify puts around it.
RECURSIVE JsonQuote(_)
JsonQuote(s) == IF s = << >> THEN << >> ELSE QuoteOfChar(Head(s)) \o JsonQuote(Tail(s))

\* The string JSON.parse reads between two quotes.
RECURSIVE JsonUnquote(_)
JsonUnquote(s) ==
  IF s = << >> THEN << >>
  ELSE IF Head(s) # "\\" \/ Len(s) = 1 THEN << Head(s) >> \o JsonUnquote(Tail(s))
  ELSE IF s[2] = "n" THEN << "\n" >> \o JsonUnquote(SubSeq(s, 3, Len(s)))
  ELSE IF s[2] = "r" THEN << "\r" >> \o JsonUnquote(SubSeq(s, 3, Len(s)))
  ELSE IF s[2] = "t" THEN << "\t" >> \o JsonUnquote(SubSeq(s, 3, Len(s)))
  ELSE IF s[2] = "u" /\ Len(s) >= 6
  THEN << FromCharCode(HexValue(s[5]) * 16 + HexValue(s[6])) >> \o JsonUnquote(SubSeq(s, 7, Len(s)))
  ELSE << s[2] >> \o JsonUnquote(SubSeq(s, 3, Len(s)))

\* A value with F applied to the strings a client chooses: the client id
\* and the state of an AuthRequest, alone or as oauthReqInfo of a dialog state.
OnRequestStrings(F(_), value) ==
  IF value.type # "object" THEN value
  ELSE [field \in DOMAIN value |->
          IF field \in { "clientId", "state" } THEN F(value[field]) ELSE value[field]]
OnStrings(F(_), value) ==
  IF value.type # "object" THEN value
  ELSE IF "oauthReqInfo" \in DOMAIN value
  THEN [field \in DOMAIN value |->
          IF field = "oauthReqInfo" THEN OnRequestStrings(F, value[field]) ELSE value[field]]
  ELSE OnRequestStrings(F, value)

JsonStringify(value) == [enc |-> "json", of |-> OnStrings(JsonQuote, value)]
NotJson == [enc |-> "text"]
JsonParse(text) ==
  IF text.enc = "json" THEN Return(OnStrings(JsonUnquote, text.of)) ELSE Throw("SyntaxError")

\* str.replace(/c/g, replacement)
RECURSIVE ReplaceAll(_, _, _)
ReplaceAll(str, c, replacement) ==
  IF str = << >> THEN << >>
  ELSE (IF Head(str) = c THEN replacement ELSE << Head(str) >>)
       \o ReplaceAll(Tail(str), c, replacement)

\* encodeHtml(str)
encodeHtml(str) ==
  ReplaceAll(
    ReplaceAll(
      ReplaceAll(
        ReplaceAll(
          ReplaceAll(str, "&", << "&", "a", "m", "p", ";" >>),
          "<", << "&", "l", "t", ";" >>),
        ">", << "&", "g", "t", ";" >>),
      "\"", << "&", "q", "u", "o", "t", ";" >>),
    "'", << "&", "#", "x", "2", "7", ";" >>)

\* The page's text for a JSON text: encodeHtml over its characters (the
\* quotes around every string become &quot;, so it is no JSON any more).
HtmlOf(text) == [enc |-> "html", of |-> OnStrings(encodeHtml, text.of)]

\* A browser reading an attribute value: the character references of the
\* five characters encodeHtml escapes.
CharacterReferences ==
  { << << "&", "a", "m", "p", ";" >>, "&" >>,
    << << "&", "l", "t", ";" >>, "<" >>,
    << << "&", "g", "t", ";" >>, ">" >>,
    << << "&", "q", "u", "o", "t", ";" >>, "\"" >>,
    << << "&", "#", "x", "2", "7", ";" >>, "'" >> }
RECURSIVE DecodeReferences(_)
DecodeReferences(str) ==
  IF str = << >> THEN << >>
  ELSE LET at == { r \in CharacterReferences :
                     Len(r[1]) <= Len(str) /\ SubSeq(str, 1, Len(r[1])) = r[1] }
       IN  IF at = {} THEN << Head(str) >> \o DecodeReferences(Tail(str))
           ELSE LET r == CHOOSE r \in at : TRUE
                IN  << r[2] >> \o DecodeReferences(SubSeq(str, Len(r[1]) + 1, Len(str)))

\* The value of the hidden field as the browser posts it.
PostedField(field) ==
  IF field.enc = "html" THEN [enc |-> "json", of |-> OnStrings(DecodeReferences, field.of)]
  ELSE field

\* The characters of the strings of a stringified value: JSON.stringify
\* writes a character outside ASCII as it is.
StringChars(text) ==
  IF text.enc = "json" /\ text.of.type = "object"
  THEN (IF "clientId" \in DOMAIN text.of THEN text.of.clientId ELSE << >>)
       \o (IF "state" \in DOMAIN text.of THEN text.of.state ELSE << >>)
  ELSE << >>

\* The base64 text of a binary string.
Base64Of(text) == [enc |-> "base64", of |-> text]

\* btoa(text): a character above code point 255 makes it throw.
btoa(text) ==
  IF \E n \in 1..Len(StringChars(text)) : CharCode(StringChars(text)[n]) > 255
  THEN Throw("InvalidCharacterError")
  ELSE Return(Base64Of(text))
\* The query parameter is absent: atob(undefined) reads the string "undefined".
MissingParam == [enc |-> "undefined"]
NotBase64 == [enc |-> "garbage"]
atob(param) == IF param.enc = "base64" THEN Return(param.of) ELSE Throw("InvalidCharacterError")

(***************************************************************************)
(* Responses.                                                              *)
(***************************************************************************)
\* c.text(body, status) and new Response(body, { status })
TextResponse(body, status) ==
  [status |-> status, page |-> body, text |-> << >>,
   location |-> NoLocation, setCookie |-> << >>, form |-> NoForm]

\* What the framework answers when a handler throws.
FaultResponse == TextResponse("Internal Server Error", 500)

(***************************************************************************)
(* oauth-utils: the consent form and the upstream redirect.                *)
(***************************************************************************)
\* One directive of the Set-Cookie value parseRedirectApproval builds.
DirectiveForSession(name, value) ==
  [name |-> name, value |-> value, path |-> "/", httpOnly |-> TRUE,
   secure |-> FALSE, sameSite |-> "Lax", expiresInYears |-> 0]

Directive(name, value) ==
  [name |-> name, value |-> value, path |-> "/", httpOnly |-> TRUE,
   secure |-> TRUE, sameSite |-> "Strict", expiresInYears |-> 1]

\* As ApprovalSignature, signing the digit 1 instead of the literal "true".
ApprovalSignatureOfOne(encryptionKey) == signData(getSigningKey(encryptionKey), << "1" >>)

\* The signature parseRedirectApproval issues: signData(key, "true").
ApprovalSignature(encryptionKey) == signData(getSigningKey(encryptionKey), TrueLiteral)

\* parseRedirectApproval(request, encryptionKey): the form's state and the
\* Set-Cookie value, its two directives in order.
parseRedirectApproval(request, encryptionKey) ==
  LET stateStr == request.form
  IN  IF stateStr.enc = "undefined" THEN Throw("Invalid state in form data")
      ELSE LET parsed == JsonParse(stateStr)
           IN  IF parsed.threw THEN parsed
               ELSE IF parsed.val.type = "null" THEN Throw("TypeError")
               ELSE IF parsed.val.oauthReqInfo.type # "object"
                       \/ ~Truthy(parsed.val.oauthReqInfo.clientId)
               THEN Throw("Invalid OAuth request info in state")
               ELSE LET clientId == parsed.val.oauthReqInfo.clientId
                        signature == ApprovalSignature(encryptionKey)
                    IN  Return([state |-> parsed.val,
                                headers |-> << Directive(ApprovedCookieName(clientId), TrueLiteral),
                                               Directive(SignatureCookieName(clientId), signature) >>])

\* renderApprovalDialog(request, data): the page with the state as hidden
\* form field.
renderApprovalDialog(request, data) ==
  [status |-> 200, page |-> "Approve Access", text |-> << >>,
   location |-> NoLocation, setCookie |-> << >>, form |-> HtmlOf(JsonStringify(data.state))]

\* getUpstreamAuthorizeUrl(params)
getUpstreamAuthorizeUrl(params) ==
  [url |-> params.upstream_url, response_type |-> "code",
   client_id |-> params.client_id, redirect_uri |-> params.redirect_uri,
   scope |-> params.scope, state |-> params.state]

(***************************************************************************)
(* google-handler: /authorize.                                             *)
(***************************************************************************)
\* The bindings of the worker.
Env ==
  [GOOGLE_CLIENT_ID |-> "google-client-id", GOOGLE_CLIENT_SECRET |-> "google-client-secret",
   COOKIE_ENCRYPTION_KEY |-> COOKIE_ENCRYPTION_KEY]

\* new URL("/callback", request.url).href
CallbackUrl == "https://worker/callback"

\* As redirectToGoogle, without the headers it is given.
redirectToGoogleWithoutHeaders(request, oauthReqInfo, env, headers) ==
  LET state == btoa(JsonStringify(oauthReqInfo))
  IN  IF state.threw THEN FaultResponse
      ELSE [status |-> 302, page |-> "", text |-> << >>,
            location |-> getUpstreamAuthorizeUrl(
                           [client_id |-> env.GOOGLE_CLIENT_ID,
                            redirect_uri |-> CallbackUrl,
                            scope |-> "openid email profile",
                            state |-> state.val,
                            upstream_url |-> "https://accounts.google.com/o/oauth2/v2/auth"]),
            setCookie |-> << >>, form |-> NoForm]

\* redirectToGoogle(request, oauthReqInfo, env, headers): the redirect, or
\* the answer to the exception btoa throws out of the route.
redirectToGoogle(request, oauthReqInfo, env, headers) ==
  LET state == btoa(JsonStringify(oauthReqInfo))
  IN  IF state.threw THEN FaultResponse
      ELSE [status |-> 302, page |-> "", text |-> << >>,
            location |-> getUpstreamAuthorizeUrl(
                           [client_id |-> env.GOOGLE_CLIENT_ID,
                            redirect_uri |-> CallbackUrl,
                            scope |-> "openid email profile",
                            state |-> state.val,
                            upstream_url |-> "https://accounts.google.com/o/oauth2/v2/auth"]),
            setCookie |-> headers, form |-> NoForm]

\* OAUTH_PROVIDER.lookupClient(clientId)
lookupClient(clientId) == [clientId |-> clientId, name |-> "client"]

\* app.get("/authorize"): the response to a request whose authorize
\* parameters the provider parsed as oauthReqInfo.
HandleGetAuthorize(request, oauthReqInfo, env) ==
  LET clientId == oauthReqInfo.clientId
  IN  IF ~Truthy(clientId) THEN TextResponse("Invalid request", 400)
      ELSE LET approved == clientIdAlreadyApproved(request, clientId, env.COOKIE_ENCRYPTION_KEY)
           IN  IF approved.threw THEN FaultResponse
               ELSE IF approved.val THEN redirectToGoogle(request, oauthReqInfo, env, << >>)
               ELSE renderApprovalDialog(request,
                      [client |-> lookupClient(clientId),
                       server |-> "SimBrief MCP Server",
                       state |-> [type |-> "object", oauthReqInfo |-> oauthReqInfo]])

\* app.post("/authorize")
HandlePostAuthorize(request, env) ==
  LET parsed == parseRedirectApproval(request, env.COOKIE_ENCRYPTION_KEY)
  IN  IF parsed.threw THEN FaultResponse
      ELSE IF parsed.val.state.oauthReqInfo.type # "object"
      THEN TextResponse("Invalid request", 400)
      ELSE redirectToGoogle(request, parsed.val.state.oauthReqInfo, env, parsed.val.headers)

(***************************************************************************)
(* google-handler: /callback.                                              *)
(***************************************************************************)
\* What an upstream endpoint answers: the request fails without a status,
\* or a status (ok or not) with a body.
NetworkError == [kind |-> "networkError"]
HttpResponse(ok, body) == [kind |-> "http", ok |-> ok, body |-> body]

\* As MissingCode, with the test left out.
MissingCodeNever(code) == FALSE

\* if (!code)
MissingCode(code) == ~Truthy(code)

\* obj.field: undefined when the object has no such property.
Get(obj, field) == IF field \in DOMAIN obj THEN obj[field] ELSE Undefined

\* As ExchangeFailed, with the test left out.
ExchangeFailedNever(tokenResponse) == FALSE

\* if (!tokenResponse.ok)
ExchangeFailed(tokenResponse) == ~tokenResponse.ok

\* As ExchangeFailure, answered as a bad request.
ExchangeFailureAsBadRequest == TextResponse("Failed to exchange authorization code", 400)

\* c.text("Failed to exchange authorization code", 500)
ExchangeFailure == TextResponse("Failed to exchange authorization code", 500)

\* fetchGoogleAccessToken(params), the token endpoint answering tokenResponse
\* when it is asked: the pair [accessToken, errResponse] (err says whether
\* errResponse is set), or a throw, and the calls made.
fetchGoogleAccessToken(params, tokenResponse) ==
  LET post == [to |-> "token", code |-> params.code, client_id |-> params.client_id,
               client_secret |-> params.client_secret,
               redirect_uri |-> params.redirect_uri, grant_type |-> "authorization_code",
               answer |-> tokenResponse]
      none == TextResponse("", 0)
  IN  IF MissingCode(params.code)
      THEN [threw |-> FALSE, accessToken |-> Null, calls |-> << >>, err |-> TRUE,
            errResponse |-> TextResponse("Missing authorization code", 400)]
      ELSE IF tokenResponse.kind = "networkError"
      THEN [threw |-> TRUE, accessToken |-> Null, calls |-> << post >>, err |-> FALSE,
            errResponse |-> none]
      ELSE IF ExchangeFailed(tokenResponse)
      THEN [threw |-> FALSE, accessToken |-> Null, calls |-> << post >>, err |-> TRUE,
            errResponse |-> ExchangeFailure]
      ELSE LET tokenData == JsonParse(tokenResponse.body)
           IN  IF tokenData.threw \/ tokenData.val.type = "null"
               THEN [threw |-> TRUE, accessToken |-> Null, calls |-> << post >>,
                     err |-> FALSE, errResponse |-> none]
               ELSE [threw |-> FALSE, accessToken |-> Get(tokenData.val, "access_token"),
                     calls |-> << post >>, err |-> FALSE, errResponse |-> none]

\* As LoginOf, taking the part after the first "@".
LoginOfSecondPart(email) == Split(email, "@")[2]

\* As LoginOf, taking the whole address.
LoginOfWholeEmail(email) == email

\* userData.email.split('@')[0]
LoginOf(email) == Split(email, "@")[1]

\* a || b
OrElse(a, b) == IF Truthy(a) THEN a ELSE b

\* The options the handler passes to OAUTH_PROVIDER.completeAuthorization.
CompletionOptions(oauthReqInfo, accessToken, userData, login) ==
  [metadata |-> [label |-> OrElse(Get(userData, "name"), login)],
   props |-> [accessToken |-> accessToken, email |-> userData.email,
              login |-> login, name |-> OrElse(Get(userData, "name"), login)],
   request |-> oauthReqInfo,
   scope |-> oauthReqInfo.scope,
   userId |-> userData.email]

\* OAUTH_PROVIDER.completeAuthorization(options): the grant is stored and
\* the client's redirect target, carrying the code of the grant, returned.
completeAuthorization(options) ==
  [redirectTo |-> [url |-> options.request.redirectUri, grantOf |-> options.userId]]

\* Response.redirect(url)
RedirectResponse(url) ==
  [status |-> 302, page |-> "", text |-> << >>, location |-> url,
   setCookie |-> << >>, form |-> NoForm]

\* As IdentityFailed, with the test left out.
IdentityFailedNever(userResponse) == FALSE

\* if (!userResponse.ok)
IdentityFailed(userResponse) == ~userResponse.ok

\* What a run of a handler leaves: the response, the outbound calls and the
\* grants stored.
Outcome(response, made, stored) == [resp |-> response, calls |-> made, grants |-> stored]

\* app.get("/callback") from the answer of the user-info endpoint on: the
\* access token is the one exchanged, made the calls made before.
CallbackAfterToken(request, oauthReqInfo, env, accessToken, made, userResponse) ==
  LET get == [to |-> "userinfo", authorization |-> accessToken, answer |-> userResponse]
  IN  IF userResponse.kind = "networkError"
      THEN Outcome(FaultResponse, made \o << get >>, {})
      ELSE IF IdentityFailed(userResponse)
      THEN Outcome(TextResponse("Failed to fetch user info", 500), made \o << get >>, {})
      ELSE LET userData == JsonParse(userResponse.body)
           IN  IF userData.threw \/ userData.val.type = "null" \/ Get(userData.val, "email") = Undefined
               THEN Outcome(FaultResponse, made \o << get >>, {})
               ELSE LET login == LoginOf(userData.val.email)
                        options == CompletionOptions(oauthReqInfo, accessToken,
                                                     userData.val, login)
                    IN  IF ~checkUserIsAllowed(login)
                        THEN Outcome(getAuthDeniedResponse(login), made \o << get >>, {})
                        ELSE Outcome(RedirectResponse(completeAuthorization(options).redirectTo),
                                     made \o << get, [to |-> "completeAuthorization",
                                                      options |-> options] >>,
                                     { options })

\* The parameters of the token exchange of a callback.
ExchangeParams(request, env) ==
  [client_id |-> env.GOOGLE_CLIENT_ID, client_secret |-> env.GOOGLE_CLIENT_SECRET,
   code |-> request.code, redirect_uri |-> CallbackUrl]

\* app.get("/callback") from the token exchange on, oauthReqInfo decoded.
CallbackAfterState(request, oauthReqInfo, env, upstream) ==
  LET token == fetchGoogleAccessToken(ExchangeParams(request, env), upstream.token)
  IN  IF token.threw THEN Outcome(FaultResponse, token.calls, {})
      ELSE IF token.err THEN Outcome(token.errResponse, token.calls, {})
      ELSE CallbackAfterToken(request, oauthReqInfo, env, token.accessToken, token.calls,
                              upstream.userinfo)

\* The head of app.get("/callback"): the AuthRequest decoded from the state
\* parameter, or the response that ends the request.
DecodedState(request) ==
  LET decoded == atob(request.state)
  IN  IF decoded.threw THEN Throw(FaultResponse)
      ELSE LET oauthReqInfo == JsonParse(decoded.val)
           IN  IF oauthReqInfo.threw \/ oauthReqInfo.val.type = "null"
               THEN Throw(FaultResponse)
               ELSE IF ~Truthy(oauthReqInfo.val.clientId)
               THEN Throw(TextResponse("Invalid state", 400))
               ELSE Return(oauthReqInfo.val)

\* app.get("/callback")
HandleCallback(request, env, upstream) ==
  LET oauthReqInfo == DecodedState(request)
  IN  IF oauthReqInfo.threw THEN Outcome(oauthReqInfo.val, << >>, {})
      ELSE CallbackAfterState(request, oauthReqInfo.val, env, upstream)

(***************************************************************************)
(* vatsim-api: validation of the requested ICAO codes.                     *)
(***************************************************************************)
\* JavaScript values a tool argument may hold.
JsUndefined == [type |-> "undefined"]
JsNull == [type |-> "null"]
JsNumber == [type |-> "number"]
JsString(chars) == [type |-> "string", chars |-> chars]
JsArray(items) == [type |-> "array", items |-> items]

\* The letter U+00DF, whose upper case is the two letters "SS".
SharpS == "<sharp-s>"

\* String.prototype.toUpperCase for one character.
UpperOfChar(c) ==
  IF c = SharpS THEN << "S", "S" >>
  ELSE IF CharCode(c) \in 97..122 THEN << FromCharCode(CharCode(c) - 32) >>
  ELSE << c >>

\* String.prototype.toUpperCase
RECURSIVE toUpperCase(_)
toUpperCase(s) ==
  IF s = << >> THEN << >> ELSE UpperOfChar(Head(s)) \o toUpperCase(Tail(s))

\* /^[A-Z]{4}$/.test(upperCode)
IcaoFormat(upperCode) ==
  /\ Len(upperCode) = 4
  /\ \A n \in 1..4 : upperCode[n] # SharpS /\ CharCode(upperCode[n]) \in 65..90

MaxIcaoCodes == 20

\* The for loop of validateIcaoCodes, from the codes still to visit and
\* the codes validated so far.
RECURSIVE ValidateFrom(_, _)
ValidateFrom(codes, validatedCodes) ==
  IF codes = << >> THEN Return(validatedCodes)
  ELSE LET code == Head(codes)
       IN  IF code.type # "string" THEN Throw("Invalid ICAO code (must be a string)")
           ELSE LET upperCode == Trim(toUpperCase(code.chars))
                IN  IF ~IcaoFormat(upperCode)
                    THEN Throw("Invalid ICAO code format (must be 4 alphabetic characters)")
                    ELSE ValidateFrom(Tail(codes), Append(validatedCodes, upperCode))

\* validateIcaoCodes(icaoCodes)
validateIcaoCodes(icaoCodes) ==
  IF icaoCodes.type # "array" \/ Len(icaoCodes.items) = 0
  THEN Throw("icaoCodes must be a non-empty array of valid 4-letter ICAO codes")
  ELSE IF Len(icaoCodes.items) > MaxIcaoCodes
  THEN Throw("Maximum 20 ICAO codes per request")
  ELSE ValidateFrom(icaoCodes.items, << >>)

(***************************************************************************)
(* vatsim-api: the fetch of the feed, with its timer.                      *)
(***************************************************************************)
FETCH_TIMEOUT == 10000
\* The timeout in seconds, the unit of the clock.
TimeoutSeconds == FETCH_TIMEOUT \div 1000

\* No call of fetchVatsimData under way.
NotFetching ==
  [pc |-> "idle", timer |-> "none", clock |-> 0, response |-> NetworkError, result |-> Return(JsNull)]

\* The checks of fetchVatsimData on the parsed body.
ValidatedData(data) ==
  IF data.type # "object" THEN Throw("Invalid response from VATSIM API")
  ELSE IF \/ "general" \notin DOMAIN data
          \/ data.general.type # "object"
          \/ "update_timestamp" \notin DOMAIN data.general
  THEN Throw("Missing required fields in VATSIM API response")
  ELSE IF "atis" \notin DOMAIN data \/ data.atis.type # "array"
  THEN Throw("ATIS data is not an array")
  ELSE Return(data)

(***************************************************************************)
(* vatsim-api: ATIS of the requested airports.                             *)
(***************************************************************************)
\* Array.prototype.join(" ")
RECURSIVE JoinLines(_)
JoinLines(lines) ==
  IF lines = << >> THEN << >>
  ELSE IF Len(lines) = 1 THEN Head(lines)
  ELSE Head(lines) \o << " " >> \o JoinLines(Tail(lines))

\* processAtisEntry(entry): text_atis is null or an array of lines.
processAtisEntry(entry) ==
  [type |-> "object",
   callsign |-> entry.callsign,
   atisCode |-> IF Truthy(entry.atis_code) /\ Trim(entry.atis_code) # << >>
                THEN JsString(entry.atis_code) ELSE JsNull,
   textAtis |-> IF entry.text_atis.type = "array"
                THEN JsString(JoinLines(entry.text_atis.items)) ELSE JsNull,
   textAtisLines |-> IF entry.text_atis.type = "array" THEN entry.text_atis ELSE JsNull]

AtisSuffix == << "_", "A", "T", "I", "S" >>
ArrivalSuffix == << "_", "A", "_", "A", "T", "I", "S" >>
DepartureSuffix == << "_", "D", "_", "A", "T", "I", "S" >>

\* As CallsignIs, comparing without regard to case.
CallsignIsIgnoringCase(entry, callsign) == toUpperCase(entry.callsign) = toUpperCase(callsign)

\* entry.callsign === callsign
CallsignIs(entry, callsign) == entry.callsign = callsign

\* atisEntries.find((entry) => entry.callsign === callsign): the first
\* such entry, or undefined.
Find(atisEntries, callsign) ==
  LET found == { n \in 1..Len(atisEntries) : CallsignIs(atisEntries[n], callsign) }
  IN  IF found = {} THEN JsUndefined
      ELSE atisEntries[CHOOSE n \in found : \A m \in found : n <= m]

\* found ? processAtisEntry(found) : null
ProcessedOrNull(found) == IF found.type = "object" THEN processAtisEntry(found) ELSE JsNull

\* findAtisForAirport(icao, atisEntries)
findAtisForAirport(icao, atisEntries) ==
  LET combined == Find(atisEntries, icao \o AtisSuffix)
      arrival == Find(atisEntries, icao \o ArrivalSuffix)
      departure == Find(atisEntries, icao \o DepartureSuffix)
  IN  [icao |-> icao,
       hasActiveAtis |-> \/ combined.type = "object"
                         \/ arrival.type = "object"
                         \/ departure.type = "object",
       combined |-> ProcessedOrNull(combined),
       arrival |-> ProcessedOrNull(arrival),
       departure |-> ProcessedOrNull(departure)]

\* getVatsimAtis(icaoCodes), fetchVatsimData() returning or throwing as
\* fetched says; the time of the answer is left out.
getVatsimAtis(icaoCodes, fetched) ==
  LET validatedCodes == validateIcaoCodes(icaoCodes)
  IN  IF validatedCodes.threw THEN validatedCodes
      ELSE IF fetched.threw THEN fetched
      ELSE LET airports == [n \in 1..Len(validatedCodes.val) |->
                              findAtisForAirport(validatedCodes.val[n], fetched.val.atis.items)]
           IN  Return([activeCount |-> Cardinality({ n \in 1..Len(airports) :
                                                       airports[n].hasActiveAtis }),
                       airports |-> airports])

(***************************************************************************)
(* simbrief-api: the fetch of a flight plan.                               *)
(***************************************************************************)
\* "fetch" in data: a TypeError when data is no object.
HasFetch(data) ==
  IF data.type \in { "object", "array" } THEN Return("fetch" \in DOMAIN data)
  ELSE Throw("Cannot use 'in' operator to search for 'fetch'")

\* (data.fetch as any)?.status === "Error"
FetchStatusIsError(data) ==
  /\ data.fetch.type = "object"
  /\ "status" \in DOMAIN data.fetch
  /\ data.fetch.status = "Error"

\* (data.fetch as any)?.message || "Unknown error"
FetchMessage(data) ==
  IF "message" \in DOMAIN data.fetch /\ data.fetch.message # "" THEN data.fetch.message
  ELSE "Unknown error"

\* The result reporting an error.
SimBriefError(prefix, message) ==
  [content |-> [type |-> "object"], error |-> << prefix, message >>, isError |-> TRUE]

\* The try block of fetchSimBriefFlightPlan, the API answering as given.
TrySimBriefFlightPlan(params, answer) ==
  IF answer.kind = "networkError" THEN Throw("fetch failed")
  ELSE IF ~answer.ok THEN Return(SimBriefError("HTTP error occurred: ", "status"))
  ELSE LET data == JsonParse(answer.body)
       IN  IF data.threw THEN Throw("Unexpected token")
           ELSE LET inData == HasFetch(data.val)
                IN  IF inData.threw THEN inData
                    ELSE IF inData.val /\ FetchStatusIsError(data.val)
                    THEN Return(SimBriefError("SimBrief API error: ", FetchMessage(data.val)))
                    ELSE Return([content |-> data.val, isError |-> FALSE])

\* As Caught, without the catch block.
Uncaught(attempt) == attempt

\* catch (error): the error is returned, not thrown.
Caught(attempt) ==
  IF attempt.threw THEN Return(SimBriefError("An error occurred: ", attempt.val)) ELSE attempt

\* fetchSimBriefFlightPlan(params)
fetchSimBriefFlightPlan(params, answer) == Caught(TrySimBriefFlightPlan(params, answer))

(***************************************************************************)
(* Requests and upstream answers the model draws from.                     *)
(***************************************************************************)
KeyOne == << "k", "1" >>
KeyTwo == << "s", "4" >>
Secrets == { KeyOne, KeyTwo }

ClientOne == << "c", "1" >>
ClientTwo == << "c", "2" >>
ClientIds == { ClientOne, ClientTwo }

\* The redirect target a client registered.
RedirectUriOf(clientId) ==
  IF clientId = ClientOne THEN "https://one.example/cb"
  ELSE IF clientId = ClientTwo THEN "https://two.example/cb"
  ELSE ""

\* AuthRequest, as OAUTH_PROVIDER.parseAuthRequest returns it; clientId is
\* the empty string when the query has none.
AuthRequestWith(clientId, state) ==
  [type |-> "object", clientId |-> clientId,
   redirectUri |-> RedirectUriOf(clientId), scope |-> "mcp", state |-> state]

\* The state parameter of a client: opaque to the server.
PlainState == << "x", "y" >>
AccentState == << "x", NonAscii >>
EuroState == << "x", Euro >>

AuthRequest(clientId) == AuthRequestWith(clientId, PlainState)

ParsedAuthRequests ==
  { AuthRequest(c) : c \in ClientIds \cup { << >> } }
  \cup { AuthRequestWith(ClientOne, EuroState) }

\* The state field of the consent form as a browser may post it.
FormStates ==
  { MissingParam, NotJson, JsonStringify(JsonNull),
    JsonStringify([type |-> "object", oauthReqInfo |-> [type |-> "undefined"]]) }
  \cup { JsonStringify([type |-> "object", oauthReqInfo |-> a]) : a \in ParsedAuthRequests }

\* One cookie of a Cookie header.
Cookie(name, value) == [name |-> name, value |-> value]

\* The Cookie header a browser sends for the cookies it presents; none when
\* it presents no cookie.
RECURSIVE JoinCookies(_)
JoinCookies(cookies) ==
  IF cookies = << >> THEN << >>
  ELSE Head(cookies).name \o << "=" >> \o Head(cookies).value
       \o (IF Len(cookies) > 1 THEN << ";", " " >> ELSE << >>)
       \o JoinCookies(Tail(cookies))

CookieHeader(cookies) == IF cookies = << >> THEN Null ELSE JoinCookies(cookies)

\* The two approval cookies for a client, with the given values.
ApprovalCookies(clientId, approved, signature) ==
  << Cookie(ApprovedCookieName(clientId), approved),
     Cookie(SignatureCookieName(clientId), signature) >>

\* Cookie values a browser may be made to present that the server never
\* wrote: a malformed escape, and signatures that are not the hex digits of
\* a tag (an escaped line feed, letters outside hex, an odd length, and a
\* tag with every byte below 16 written as its digit and "g").
Percent == << "%" >>
EscapedLineFeed == << "%", "0", "A" >>
NotHex == << "z", "z", "z", "z" >>

RECURSIVE ZeroNibblesRewritten(_)
ZeroNibblesRewritten(hex) ==
  IF Len(hex) < 2 THEN hex
  ELSE (IF hex[1] = "0" THEN << hex[2], "g" >> ELSE SubSeq(hex, 1, 2))
       \o ZeroNibblesRewritten(SubSeq(hex, 3, Len(hex)))

MalformedSignatures(signature) ==
  { EscapedLineFeed, NotHex, Tail(signature) }
  \cup ({ ZeroNibblesRewritten(signature) } \ { signature })

TamperedValues(signature) ==
  { << Percent, signature >> }
  \cup { << TrueLiteral, m >> : m \in MalformedSignatures(signature) }

TamperedCookies ==
  { ApprovalCookies(c, v[1], v[2]) :
      c \in ClientIds, v \in TamperedValues(ApprovalSignature(COOKIE_ENCRYPTION_KEY)) }

\* What a browser may present on GET /authorize: nothing, approval cookies
\* it was sent (for one client, or for two), the values it was sent for one
\* client under the names of another, or tampered values.
PresentableCookies ==
  { << >> }
  \cup { ApprovalCookies(c, i.approved, i.signature) : c \in ClientIds, i \in issued }
  \cup { ApprovalCookies(i.clientId, i.approved, i.signature)
           \o ApprovalCookies(j.clientId, j.approved, j.signature) :
         << i, j >> \in { p \in issued \X issued : p[1].clientId # p[2].clientId } }
  \cup TamperedCookies

\* Query parameters of a callback.
AuthCode == << "4", "/", "0", "A" >>
Codes == { Undefined, << >>, AuthCode }
StateParams ==
  { MissingParam, NotBase64, Base64Of(NotJson), Base64Of(JsonStringify(JsonNull)) }
  \cup { Base64Of(JsonStringify(AuthRequest(c))) : c \in { ClientOne, << >> } }

\* Answers of the token endpoint.
UpstreamToken == << "y", "a", "2", "9" >>
TokenResponses ==
  { NetworkError,
    HttpResponse(FALSE, JsonStringify([type |-> "object", error |-> "invalid_grant"])),
    HttpResponse(FALSE, NotJson),
    HttpResponse(TRUE, NotJson),
    HttpResponse(TRUE, JsonStringify([type |-> "object", error |-> "invalid_grant"])),
    HttpResponse(TRUE, JsonStringify([type |-> "object", access_token |-> UpstreamToken])) }

\* Answers of the user-info endpoint.
Domain == << "@", "g", ".", "c", "o" >>
Eve == << "e", "v", "e" >>
UpperLeonchike == << "L", "e", "o", "n", "c", "h", "i", "k", "e" >>
DisplayName == << "L", "e", "o", "n" >>
\* A property of a JSON object, left out when the value is undefined.
Property(field, value) == IF value = Undefined THEN EmptyObject ELSE field :> value

\* The JSON an identity is reported as, and the same with verified_email.
UserInfo(email, name) ==
  [type |-> "object"] @@ Property("email", email) @@ Property("name", name)
Verified(info, verified) == info @@ ("verified_email" :> verified)

UserResponses ==
  { NetworkError,
    HttpResponse(FALSE, JsonStringify([type |-> "object", error |-> "unauthorized"])),
    HttpResponse(FALSE, NotJson),
    HttpResponse(FALSE, JsonStringify(Verified(UserInfo(Eve \o Domain, DisplayName), TRUE))),
    HttpResponse(TRUE, NotJson),
    HttpResponse(TRUE, JsonStringify(Verified(UserInfo(Undefined, DisplayName), TRUE))) }
  \cup { HttpResponse(TRUE, JsonStringify(Verified(UserInfo(l \o Domain, n), TRUE))) :
           l \in { Leonchike, Eve, UpperLeonchike },
           n \in { Undefined, << >>, DisplayName } }
  \cup { HttpResponse(TRUE, JsonStringify(Verified(UserInfo(l \o Domain, DisplayName), FALSE))) :
           l \in { Leonchike, Eve } }
  \cup { HttpResponse(TRUE, JsonStringify(UserInfo(Leonchike \o Domain, DisplayName))) }

\* No request answered yet.
NoRequest == [route |-> "none"]
NoResponse == TextResponse("", 0)
NoCall == [fn |-> "none"]

(***************************************************************************)
(* Callbacks answered at the same time: a handler gives way to the others  *)
(* at each await of an upstream answer.                                    *)
(***************************************************************************)
Attempts == 1..MaxAttempts

\* No callback received yet.
Idle ==
  [pc |-> "idle", request |-> NoRequest, upstream |-> NoRequest, oauthReqInfo |-> JsonNull,
   accessToken |-> Undefined, made |-> << >>, resp |-> TextResponse("", 0)]

\* As AccessTokenOf, the token kept in one place for all callbacks: the one
\* exchanged last.
AccessTokenOfLatest(a, exchanged) ==
  LET later == { b \in Attempts \ { a } : inflight[b].pc \in { "userinfo", "done" }
                                          /\ Truthy(inflight[b].accessToken) }
  IN  IF later = {} THEN exchanged ELSE inflight[CHOOSE b \in later : TRUE].accessToken

\* const [accessToken, errResponse] = await fetchGoogleAccessToken(...):
\* the token of a callback is a local of its handler.
AccessTokenOf(a, exchanged) == exchanged

(***************************************************************************)
(* The worker: one action per route.                                       *)
(***************************************************************************)
Init ==
  /\ COOKIE_ENCRYPTION_KEY = KeyOne
  /\ ALLOWED_USERNAMES = ShippedAllowList
  /\ issued = {}
  /\ grants = {}
  /\ req = NoRequest
  /\ resp = NoResponse
  /\ calls = << >>
  /\ call = NoCall
  /\ ret = NoCall
  /\ fetching = NotFetching
  /\ inflight = [a \in Attempts |-> Idle]
  /\ redirects = {}

\* The state a response hands to the upstream provider, if it is a redirect
\* to it.
PlacedBy(response) ==
  IF response.status = 302 /\ response.location # NoLocation
  THEN { response.location.state } ELSE {}

\* GET /authorize
GetAuthorize ==
  \E oauthReqInfo \in ParsedAuthRequests, presented \in PresentableCookies :
    LET request == [method |-> "GET", path |-> "/authorize", cookie |-> CookieHeader(presented)]
    IN  /\ req' = [route |-> "GET /authorize", oauthReqInfo |-> oauthReqInfo,
                   presented |-> presented, cookie |-> request.cookie]
        /\ resp' = HandleGetAuthorize(request, oauthReqInfo, Env)
        /\ redirects' = redirects \cup PlacedBy(HandleGetAuthorize(request, oauthReqInfo, Env))
        /\ calls' = << >>
        /\ UNCHANGED << COOKIE_ENCRYPTION_KEY, ALLOWED_USERNAMES, issued, grants, call, ret, inflight, fetching >>

\* The approval cookies a response sends, as the browser keeps them.
IssuedBy(response, key) ==
  IF response.setCookie = << >> THEN {}
  ELSE { [clientId |-> SubSeq(response.setCookie[1].name, Len(ClientPrefix) + 1,
                              Len(response.setCookie[1].name) - Len(ApprovedSuffix)),
          key |-> key,
          approved |-> response.setCookie[1].value,
          signature |-> response.setCookie[2].value] }

\* POST /authorize
PostAuthorize ==
  \E form \in FormStates :
    LET request == [method |-> "POST", path |-> "/authorize", form |-> form]
        response == HandlePostAuthorize(request, Env)
    IN  /\ req' = [route |-> "POST /authorize", form |-> form]
        /\ resp' = response
        /\ issued' = issued \cup IssuedBy(response, COOKIE_ENCRYPTION_KEY)
        /\ redirects' = redirects \cup PlacedBy(response)
        /\ calls' = << >>
        /\ UNCHANGED << COOKIE_ENCRYPTION_KEY, ALLOWED_USERNAMES, grants, call, ret, inflight, fetching >>

\* The worker is deployed again with another COOKIE_ENCRYPTION_KEY.
RotateSecret ==
  \E key \in Secrets \ { COOKIE_ENCRYPTION_KEY } :
    /\ COOKIE_ENCRYPTION_KEY' = key
    /\ req' = NoRequest
    /\ resp' = NoResponse
    /\ calls' = << >>
    /\ UNCHANGED << ALLOWED_USERNAMES, issued, grants, call, ret, redirects, inflight, fetching >>

\* GET /callback, its parameters and the answers of the upstream endpoints
\* drawn from the given sets.
Callback(states, codes, tokens, userinfos) ==
  \E state \in states, code \in codes, token \in tokens, userinfo \in userinfos :
    LET request == [method |-> "GET", path |-> "/callback", state |-> state, code |-> code]
        outcome == HandleCallback(request, Env, [token |-> token, userinfo |-> userinfo])
    IN  /\ Cardinality(grants \cup outcome.grants) <= MaxGrants
        /\ req' = [route |-> "GET /callback", state |-> state, code |-> code]
        /\ resp' = outcome.resp
        /\ calls' = outcome.calls
        /\ grants' = grants \cup outcome.grants
        /\ UNCHANGED << COOKIE_ENCRYPTION_KEY, ALLOWED_USERNAMES, issued, call, ret, redirects, inflight, fetching >>

\* GET /callback
GetCallback == Callback(StateParams, Codes, TokenResponses, UserResponses)

\* GET /callback as the upstream provider sends the browser back, or as a
\* client forges it: the state is one this server placed or another one,
\* the code is given, the token endpoint accepts it or refuses it as used.
AcceptedCode == HttpResponse(TRUE, JsonStringify([type |-> "object", access_token |-> UpstreamToken]))
RefusedCode == HttpResponse(FALSE, JsonStringify([type |-> "object", error |-> "invalid_grant"]))
ForgedStates == { Base64Of(JsonStringify(AuthRequest(ClientTwo))) }
ReturnFromUpstream ==
  Callback(redirects \cup ForgedStates, { AuthCode }, { AcceptedCode, RefusedCode },
           { HttpResponse(TRUE, JsonStringify(Verified(UserInfo(l \o Domain, DisplayName), TRUE))) :
               l \in { Leonchike, Eve } })

NextAuthorize == GetAuthorize \/ PostAuthorize \/ RotateSecret

\* The consent step: /authorize under a secret that may be replaced.
SpecAuthorize == Init /\ [][NextAuthorize]_vars

NextCallback == GetCallback

\* The callback step.
SpecCallback == Init /\ [][NextCallback]_vars

\* The answers the upstream endpoints will give to one callback.
SecondToken == << "y", "a", "3", "0" >>
ConcurrentStates == { Base64Of(JsonStringify(AuthRequest(c))) : c \in ClientIds } \cup { NotBase64 }
ConcurrentTokens ==
  { RefusedCode }
  \cup { HttpResponse(TRUE, JsonStringify([type |-> "object", access_token |-> t])) :
           t \in { UpstreamToken, SecondToken } }
ConcurrentUsers ==
  { HttpResponse(FALSE, NotJson) }
  \cup { HttpResponse(TRUE, JsonStringify(Verified(UserInfo(l \o Domain, DisplayName), TRUE))) :
           l \in { Leonchike, Eve } }

\* GET /callback arrives: the handler runs up to the fetch of the token.
CallbackArrives(a) ==
  /\ inflight[a].pc = "idle"
  /\ \E state \in ConcurrentStates, token \in ConcurrentTokens, userinfo \in ConcurrentUsers :
       LET request == [method |-> "GET", path |-> "/callback", state |-> state, code |-> AuthCode]
           oauthReqInfo == DecodedState(request)
       IN  inflight' =
             [inflight EXCEPT ![a] =
                IF oauthReqInfo.threw
                THEN [Idle EXCEPT !.pc = "done", !.request = request,
                                  !.upstream = [token |-> token, userinfo |-> userinfo],
                                  !.resp = oauthReqInfo.val]
                ELSE [Idle EXCEPT !.pc = "token", !.request = request,
                                  !.upstream = [token |-> token, userinfo |-> userinfo],
                                  !.oauthReqInfo = oauthReqInfo.val]]
  /\ UNCHANGED << COOKIE_ENCRYPTION_KEY, ALLOWED_USERNAMES, issued, grants, req, resp, calls,
                  call, ret, redirects, fetching >>

\* The token endpoint answers: fetchGoogleAccessToken returns, and the
\* handler runs up to the fetch of the identity.
TokenAnswered(a) ==
  /\ inflight[a].pc = "token"
  /\ LET token == fetchGoogleAccessToken(ExchangeParams(inflight[a].request, Env),
                                         inflight[a].upstream.token)
     IN  inflight' =
           [inflight EXCEPT ![a] =
              IF token.threw THEN [@ EXCEPT !.pc = "done", !.made = token.calls,
                                            !.resp = FaultResponse]
              ELSE IF token.err THEN [@ EXCEPT !.pc = "done", !.made = token.calls,
                                               !.resp = token.errResponse]
              ELSE [@ EXCEPT !.pc = "userinfo", !.made = token.calls,
                             !.accessToken = token.accessToken]]
  /\ UNCHANGED << COOKIE_ENCRYPTION_KEY, ALLOWED_USERNAMES, issued, grants, req, resp, calls,
                  call, ret, redirects, fetching >>

\* The user-info endpoint answers: the handler runs to its end.
IdentityAnswered(a) ==
  /\ inflight[a].pc = "userinfo"
  /\ LET outcome == CallbackAfterToken(inflight[a].request, inflight[a].oauthReqInfo, Env,
                                       AccessTokenOf(a, inflight[a].accessToken),
                                       inflight[a].made, inflight[a].upstream.userinfo)
     IN  /\ inflight' = [inflight EXCEPT ![a] = [@ EXCEPT !.pc = "done", !.made = outcome.calls,
                                                          !.resp = outcome.resp]]
         /\ grants' = grants \cup outcome.grants
  /\ UNCHANGED << COOKIE_ENCRYPTION_KEY, ALLOWED_USERNAMES, issued, req, resp, calls,
                  call, ret, redirects, fetching >>

NextConcurrent ==
  \E a \in Attempts : CallbackArrives(a) \/ TokenAnswered(a) \/ IdentityAnswered(a)

\* Callbacks of several clients and users, interleaved at their awaits.
SpecConcurrent == Init /\ [][NextConcurrent]_vars

NextFlow == PostAuthorize \/ ReturnFromUpstream

\* An authorization attempt from the consent submission to the callback.
SpecFlow == Init /\ [][NextFlow]_vars

Next == GetAuthorize \/ PostAuthorize \/ RotateSecret \/ GetCallback

Spec == Init /\ [][Next]_vars

(***************************************************************************)
(* The helpers applied on their own to drawn arguments: one application    *)
(* per behaviour, as the helpers keep no state between calls.              *)
(***************************************************************************)
HeaderAlphabet == { "a", "=", ";", " ", "%" }

\* Every header over HeaderAlphabet of at most MaxHeaderLen characters.
EnumeratedHeaders == UNION { [1..n -> HeaderAlphabet] : n \in 0..MaxHeaderLen }

SampleHeaders ==
  { << "a", "=", "b", "=", "c" >>,
    << "a", "=", "b", ";", " ", "c", "=", "d" >>,
    << " ", "a", "=", "b", " ", ";", "c", "=", "%", "4", "1", " " >>,
    << "a", "=", "%", "3", "D", ";", "b" >>,
    << "a", "=", "1", ";", " ", "a", "=", "2" >>,
    << "t", "o", "k", "=", "Y", "Q", "=", "=" >>,
    << "a", "=", "%", "4" >>,
    << "a", "=", "%", "C", "3", "%", "A", "9" >>,
    << "a", "=", "%", "A", "9" >> }

ParseInputs == EnumeratedHeaders \cup SampleHeaders

ApplyParseCookieHeader ==
  \E cookieHeader \in ParseInputs :
    /\ call = NoCall
    /\ call' = [fn |-> "parseCookieHeader", cookieHeader |-> cookieHeader]
    /\ ret' = parseCookieHeader(cookieHeader)
    /\ UNCHANGED << COOKIE_ENCRYPTION_KEY, ALLOWED_USERNAMES, issued, grants, req, resp, calls, redirects, inflight, fetching >>

\* Values of the flag cookie and of the signature cookie; Undefined when
\* the cookie is not sent.
UpperTrue == << "T", "R", "U", "E" >>
FalseLiteral == << "f", "a", "l", "s", "e" >>
FlagValues == { Undefined, << >>, TrueLiteral, UpperTrue, FalseLiteral, Percent }

RECURSIVE Upper(_)
Upper(s) ==
  IF s = << >> THEN << >>
  ELSE << IF CharCode(Head(s)) \in 97..122 THEN FromCharCode(CharCode(Head(s)) - 32)
          ELSE Head(s) >> \o Upper(Tail(s))

SignatureValues ==
  { Undefined, << >> }
  \cup UNION { { ApprovalSignature(k), Upper(ApprovalSignature(k)),
                 signData(getSigningKey(k), FalseLiteral),
                 signData(getSigningKey(k), UpperTrue) }
               \cup MalformedSignatures(ApprovalSignature(k)) : k \in Secrets }

\* The cookies sent, in header order.
SentCookies(named, flag, signature) ==
  (IF flag = Undefined THEN << >> ELSE << Cookie(ApprovedCookieName(named), flag) >>)
  \o (IF signature = Undefined THEN << >>
      ELSE << Cookie(SignatureCookieName(named), signature) >>)

ApplyClientIdAlreadyApproved ==
  \E clientId \in ClientIds, named \in ClientIds, encryptionKey \in Secrets,
     flag \in FlagValues, signature \in SignatureValues :
    LET request == [cookie |-> CookieHeader(SentCookies(named, flag, signature))]
    IN  /\ call = NoCall
        /\ call' = [fn |-> "clientIdAlreadyApproved", clientId |-> clientId,
                    encryptionKey |-> encryptionKey, named |-> named, flag |-> flag,
                    signature |-> signature, cookie |-> request.cookie]
        /\ ret' = clientIdAlreadyApproved(request, clientId, encryptionKey)
        /\ UNCHANGED << COOKIE_ENCRYPTION_KEY, ALLOWED_USERNAMES, issued, grants, req, resp, calls, redirects, inflight, fetching >>

SignSecrets == Secrets \cup { << "k" >>, << "K", "1" >>, << "1", "k" >> }
Messages == { TrueLiteral, UpperTrue, FalseLiteral, << "a" >>, << >> }

\* signData under one secret, then verifySignature under another.
ApplySignVerify ==
  \E signer \in SignSecrets, verifier \in SignSecrets, data \in Messages :
    LET signature == signData(getSigningKey(signer), data)
    IN  /\ call = NoCall
        /\ call' = [fn |-> "signData/verifySignature", signer |-> signer,
                    verifier |-> verifier, data |-> data]
        /\ ret' = [signature |-> signature,
                   verified |-> verifySignature(getSigningKey(verifier), signature, data)]
        /\ UNCHANGED << COOKIE_ENCRYPTION_KEY, ALLOWED_USERNAMES, issued, grants, req, resp, calls, redirects, inflight, fetching >>

Alice == << "a", "l", "i", "c", "e" >>
UpperAlice == << "A", "l", "i", "c", "e" >>
AliceTwo == << "a", "l", "i", "c", "e", "2" >>
AllowLists == { {}, { Alice }, ShippedAllowList }
Logins == { Alice, UpperAlice, AliceTwo, Eve, Leonchike, UpperLeonchike, Leonnwankwo, << >> }

ApplyCheckUserIsAllowed ==
  \E username \in Logins :
    /\ call = NoCall
    /\ call' = [fn |-> "checkUserIsAllowed", username |-> username]
    /\ ret' = checkUserIsAllowed(username)
    /\ UNCHANGED << COOKIE_ENCRYPTION_KEY, ALLOWED_USERNAMES, issued, grants, req, resp, calls, redirects, inflight, fetching >>

\* As Init, under any of the allow-lists.
\* Arguments validateIcaoCodes is given: values that are no array, every
\* array of up to MaxArrayLen elements, and arrays around the limit of 20.
Kjfk == << "k", "j", "f", "k" >>
Egll == << "E", "G", "L", "L" >>
IcaoElements ==
  { JsNumber }
  \cup { JsString(chars) :
           chars \in { Kjfk, Egll, << >>, << "e", "g", "l" >>, << "k", "j", "f", "k", "a" >>,
                       << "k", "1", "f", "k" >>, << " ", "k", "j", "f", "k", "\n" >>,
                       << SharpS, "a", "b" >> } }
Repeated(element, len) == [n \in 1..len |-> element]
IcaoArguments ==
  { JsUndefined, JsNull, JsString(Kjfk) }
  \cup { JsArray(items) : items \in UNION { [1..len -> IcaoElements] : len \in 0..MaxArrayLen } }
  \cup { JsArray(Repeated(JsString(Kjfk), len)) : len \in (MaxIcaoCodes - 1)..(MaxIcaoCodes + 2) }
  \cup { JsArray(Append(Repeated(JsString(Kjfk), len), JsNumber)) :
           len \in (MaxIcaoCodes - 1)..MaxIcaoCodes }

ApplyValidateIcaoCodes ==
  /\ call = NoCall
  /\ \E icaoCodes \in IcaoArguments :
       /\ call' = [fn |-> "validateIcaoCodes", icaoCodes |-> icaoCodes]
       /\ ret' = validateIcaoCodes(icaoCodes)
  /\ UNCHANGED << COOKIE_ENCRYPTION_KEY, ALLOWED_USERNAMES, issued, grants, req, resp, calls, redirects, inflight, fetching >>

\* The data of the feed with the given atis member.
VatsimData(atis) ==
  [type |-> "object", general |-> [type |-> "object", update_timestamp |-> "2024-01-01T00:00:00Z"],
   atis |-> atis]

\* Feeds getVatsimAtis reads: every sequence of up to MaxFeedLen entries.
KjfkUpper == << "K", "J", "F", "K" >>
AtisEntry(callsign, atis_code, text_atis) ==
  [type |-> "object", callsign |-> callsign, atis_code |-> atis_code, text_atis |-> text_atis]
AtisLines == JsArray(<< << "I", "N", "F", "O" >>, << "B" >> >>)
FeedEntries ==
  { AtisEntry(KjfkUpper \o AtisSuffix, << "B" >>, AtisLines),
    AtisEntry(KjfkUpper \o AtisSuffix, << >>, JsNull),
    AtisEntry(KjfkUpper \o ArrivalSuffix, << " " >>, JsArray(<< >>)),
    AtisEntry(Egll \o DepartureSuffix, << "C" >>, JsNull),
    AtisEntry(Kjfk \o AtisSuffix, << "D" >>, JsNull),
    AtisEntry(KjfkUpper \o << "_", "T", "W", "R" >>, << >>, JsNull),
    AtisEntry(Egll \o << "X" >> \o AtisSuffix, << "E" >>, JsNull) }
Feeds == UNION { [1..len -> FeedEntries] : len \in 0..MaxFeedLen }
Fetched ==
  { Throw("VATSIM data service request timed out (10s)") }
  \cup { Return(VatsimData(JsArray(feed))) : feed \in Feeds }
AtisRequests ==
  { JsArray(<< >>) }
  \cup { JsArray(items) :
           items \in UNION { [1..len -> { JsString(Kjfk), JsString(Egll), JsString(KjfkUpper) }] :
                               len \in 1..2 } }

ApplyGetVatsimAtis ==
  /\ call = NoCall
  /\ \E icaoCodes \in AtisRequests, fetched \in Fetched :
       /\ call' = [fn |-> "getVatsimAtis", icaoCodes |-> icaoCodes, fetched |-> fetched]
       /\ ret' = getVatsimAtis(icaoCodes, fetched)
  /\ UNCHANGED << COOKIE_ENCRYPTION_KEY, ALLOWED_USERNAMES, issued, grants, req, resp, calls, redirects, inflight, fetching >>

(***************************************************************************)
(* fetchVatsimData as a process: the call, the timer it sets, the          *)
(* endpoint delivering status and body, and the time passing.              *)
(***************************************************************************)
\* What the endpoint may answer: a status with the body that will follow.
VatsimBodies ==
  { NotJson, JsonStringify(JsonNull), JsonStringify(JsNumber),
    JsonStringify([type |-> "object"]),
    JsonStringify([type |-> "object", general |-> [type |-> "object"], atis |-> JsArray(<< >>)]),
    JsonStringify(VatsimData(JsNull)) }
  \cup { JsonStringify(VatsimData(JsArray(feed))) : feed \in Feeds }
VatsimResponses ==
  { HttpResponse(FALSE, NotJson) } \cup { HttpResponse(TRUE, body) : body \in VatsimBodies }

\* const timeoutId = setTimeout(() => controller.abort(), FETCH_TIMEOUT);
\* fetch(VATSIM_DATA_URL, {signal: controller.signal}) is awaited.
StartFetch ==
  /\ fetching.pc = "idle"
  /\ fetching' = [fetching EXCEPT !.pc = "fetch", !.timer = "armed", !.clock = 0]
  /\ UNCHANGED << COOKIE_ENCRYPTION_KEY, ALLOWED_USERNAMES, issued, grants, req, resp, calls,
                  call, ret, redirects, inflight >>

\* A second passes while the call waits.
Tick ==
  /\ fetching.pc \in { "fetch", "body" }
  /\ fetching.clock < TimeoutSeconds
  /\ fetching' = [fetching EXCEPT !.clock = @ + 1]
  /\ UNCHANGED << COOKIE_ENCRYPTION_KEY, ALLOWED_USERNAMES, issued, grants, req, resp, calls,
                  call, ret, redirects, inflight >>

\* fetch rejects: the request failed before any status was received.  The
\* catch block clears the timer and throws the error again.
FetchRejects ==
  /\ fetching.pc = "fetch"
  /\ fetching' = [fetching EXCEPT !.pc = "done", !.timer = "cleared",
                                  !.result = Throw("fetch failed")]
  /\ UNCHANGED << COOKIE_ENCRYPTION_KEY, ALLOWED_USERNAMES, issued, grants, req, resp, calls,
                  call, ret, redirects, inflight >>

\* fetch resolves: status and headers are in.  clearTimeout(timeoutId); a
\* status that is no success is thrown, otherwise response.json() is awaited.
HeadersArrive ==
  /\ fetching.pc = "fetch"
  /\ \E response \in VatsimResponses :
       fetching' =
         IF ~response.ok
         THEN [fetching EXCEPT !.pc = "done", !.timer = "cleared", !.response = response,
                               !.result = Throw("VATSIM API returned an error status")]
         ELSE [fetching EXCEPT !.pc = "body", !.timer = "cleared", !.response = response]
  /\ UNCHANGED << COOKIE_ENCRYPTION_KEY, ALLOWED_USERNAMES, issued, grants, req, resp, calls,
                  call, ret, redirects, inflight >>

\* response.json() settles: the body is in.  It is parsed and checked.
BodyArrives ==
  /\ fetching.pc = "body"
  /\ LET data == JsonParse(fetching.response.body)
     IN  fetching' = [fetching EXCEPT !.pc = "done", !.timer = "cleared",
                                      !.result = IF data.threw THEN data
                                                 ELSE ValidatedData(data.val)]
  /\ UNCHANGED << COOKIE_ENCRYPTION_KEY, ALLOWED_USERNAMES, issued, grants, req, resp, calls,
                  call, ret, redirects, inflight >>

\* The timer fires: controller.abort() rejects the pending await with an
\* AbortError, which the catch block reports as the timeout.
TimerFires ==
  /\ fetching.pc \in { "fetch", "body" }
  /\ fetching.timer = "armed"
  /\ fetching.clock >= TimeoutSeconds
  /\ fetching' = [fetching EXCEPT !.pc = "done", !.timer = "fired",
                                  !.result = Throw("VATSIM data service request timed out (10s)")]
  /\ UNCHANGED << COOKIE_ENCRYPTION_KEY, ALLOWED_USERNAMES, issued, grants, req, resp, calls,
                  call, ret, redirects, inflight >>

NextVatsim ==
  StartFetch \/ Tick \/ FetchRejects \/ HeadersArrive \/ BodyArrives \/ TimerFires

\* One call of fetchVatsimData.  The runtime lets time pass and fires an
\* armed timer; nothing obliges the endpoint to deliver.
SpecVatsim ==
  Init /\ [][NextVatsim]_vars /\ WF_vars(StartFetch) /\ WF_vars(Tick) /\ WF_vars(TimerFires)

\* The state parameters a client may choose: every string of up to
\* MaxStateLen characters of an alphabet with the characters HTML and JSON
\* escape, and two that read as character references.
StateAlphabet == { "x", "n", "&", "<", ">", "\"", "'", "\\", ";", "\n", NonAscii, Euro }
ClientStates ==
  UNION { [1..len -> StateAlphabet] : len \in 0..MaxStateLen }
  \cup { << "&", "a", "m", "p", ";" >>, << "&", "#", "x", "2", "7", ";" >> }
RoundTripRequests == { AuthRequestWith(ClientOne, state) : state \in ClientStates }

\* redirectToGoogle places the request as state; /callback reads it back.
RedirectRoundTrip(r) ==
  LET state == btoa(JsonStringify(r))
  IN  IF state.threw THEN state
      ELSE LET decoded == atob(state.val)
           IN  IF decoded.threw THEN decoded ELSE JsonParse(decoded.val)

\* renderApprovalDialog writes the request into the hidden field; the
\* browser posts it and parseRedirectApproval reads it back.
FormRoundTrip(r) ==
  LET page == renderApprovalDialog([method |-> "GET", path |-> "/authorize"],
                                   [client |-> lookupClient(r.clientId),
                                    server |-> "SimBrief MCP Server",
                                    state |-> [type |-> "object", oauthReqInfo |-> r]])
      parsed == parseRedirectApproval([method |-> "POST", path |-> "/authorize",
                                       form |-> PostedField(page.form)],
                                      COOKIE_ENCRYPTION_KEY)
  IN  IF parsed.threw THEN parsed ELSE Return(parsed.val.state)

ApplyStateRoundTrip ==
  /\ call = NoCall
  /\ \E r \in RoundTripRequests :
       /\ call' = [fn |-> "stateRoundTrip", r |-> r]
       /\ ret' = [redirect |-> RedirectRoundTrip(r), form |-> FormRoundTrip(r)]
  /\ UNCHANGED << COOKIE_ENCRYPTION_KEY, ALLOWED_USERNAMES, issued, grants, req, resp, calls, redirects, inflight, fetching >>

(***************************************************************************)
(* format-flight-plan: what the markdown of a flight plan lists.           *)
(***************************************************************************)
\* index % 5 === 0
WaypointStep == 5
\* .slice(0, 5) of the critical NOTAMs of an airport
NotamLimit == 5
\* sigmets.slice(0, 5)
SigmetLimit == 5

criticalCategories == { "Runway", "Lighting", "Navigation", "Obstacle", "Aerodrome" }
criticalStatuses == { "Closed", "Limited", "Irregular", "Unserviceable" }

\* data.x || {}
ObjectOr(data, field) ==
  IF field \in DOMAIN data THEN data[field] ELSE [type |-> "object"]

\* data.x?.y || []
ListOr(data, field, item) ==
  IF field \in DOMAIN data /\ item \in DOMAIN data[field] THEN data[field][item]
  ELSE JsArray(<< >>)

\* Array.prototype.slice(0, limit)
SliceTo(items, limit) ==
  IF Len(items) <= limit THEN items ELSE SubSeq(items, 1, limit)

\* The predicate of filterCriticalNotams.
IsCritical(n) ==
  \/ "notam_qcode_category" \in DOMAIN n /\ n.notam_qcode_category \in criticalCategories
  \/ "notam_qcode_status" \in DOMAIN n /\ n.notam_qcode_status \in criticalStatuses

\* filterCriticalNotams(notams); a TypeError when notams is no array.
filterCriticalNotams(notams) ==
  IF notams.type # "array" THEN Throw("notams.filter is not a function")
  ELSE Return(SliceTo(SelectSeq(notams.items, IsCritical), NotamLimit))

\* Array.prototype.filter with a predicate on the index (from 1 here).
RECURSIVE FilterIndex(_, _, _)
FilterIndex(items, Keep(_), i) ==
  IF i > Len(items) THEN << >>
  ELSE (IF Keep(i) THEN << items[i] >> ELSE << >>) \o FilterIndex(items, Keep, i + 1)

\* As keyWaypointsOf, without the final fix.
keyWaypointsWithoutLast(navlog) ==
  IF navlog.type # "array" THEN << >>
  ELSE LET Keep(i) == (i - 1) % WaypointStep = 0
       IN  FilterIndex(navlog.items, Keep, 1)

\* const keyWaypoints = Array.isArray(navlog) ? navlog.filter(...) : []
keyWaypointsOf(navlog) ==
  IF navlog.type # "array" THEN << >>
  ELSE LET Keep(i) == (i - 1) % WaypointStep = 0 \/ i - 1 = Len(navlog.items) - 1
       IN  FilterIndex(navlog.items, Keep, 1)

\* value || 'N/A'
OrNA(obj, field) ==
  IF field \in DOMAIN obj /\ obj[field] # "" THEN obj[field] ELSE "N/A"

\* The rows the markdown lists for fixes, NOTAMs and SIGMETs.
WaypointRow(fix) == [ident |-> OrNA(fix, "ident")]
NotamRow(notam) ==
  [category |-> OrNA(notam, "notam_qcode_category"),
   status |-> OrNA(notam, "notam_qcode_status"),
   id |-> OrNA(notam, "notam_id")]
SigmetRow(sigmet) == [id |-> OrNA(sigmet, "id")]
Rows(items, Row(_)) == [i \in 1..Len(items) |-> Row(items[i])]

\* The SIGMET section: at most the first five, and the count of the rest.
SigmetSection(sigmets) ==
  IF sigmets.type = "array" /\ Len(sigmets.items) > 0
  THEN [rows |-> Rows(SliceTo(sigmets.items, SigmetLimit), SigmetRow),
        more |-> IF Len(sigmets.items) > SigmetLimit
                 THEN Len(sigmets.items) - SigmetLimit ELSE 0]
  ELSE [rows |-> << >>, more |-> 0]

\* formatFlightPlanMarkdown(data): the lists of the markdown.
formatFlightPlanMarkdown(data) ==
  LET navlog == ListOr(data, "navlog", "fix")
      sigmets == ListOr(data, "sigmets", "sigmet")
      criticalOriginNotams == filterCriticalNotams(ListOr(data, "origin", "notam"))
      criticalDestNotams == filterCriticalNotams(ListOr(data, "destination", "notam"))
      criticalAltNotams == filterCriticalNotams(ListOr(data, "alternate", "notam"))
  IN  IF criticalOriginNotams.threw THEN criticalOriginNotams
      ELSE IF criticalDestNotams.threw THEN criticalDestNotams
      ELSE IF criticalAltNotams.threw THEN criticalAltNotams
      ELSE Return([formatter |-> "formatFlightPlanMarkdown",
                   keyWaypoints |-> Rows(keyWaypointsOf(navlog), WaypointRow),
                   notams |-> [origin |-> Rows(criticalOriginNotams.val, NotamRow),
                               destination |-> Rows(criticalDestNotams.val, NotamRow),
                               alternate |-> Rows(criticalAltNotams.val, NotamRow)],
                   sigmets |-> SigmetSection(sigmets)])

(***************************************************************************)
(* register-simbrief-tools: the tools and their Sentry wrapper.            *)
(***************************************************************************)
Tools ==
  { "getLatestFlightPlan", "getFlightPlanById", "getDispatchBriefing",
    "getLatestFlightPlanSummary", "getFlightPlanByIdSummary", "getNotams" }

\* What a handler throws: an Error with its message, or another value.
ErrorOf(message) == [type |-> "Error", message |-> message]
ThrownString(text) == [type |-> "string", text |-> text]

\* error instanceof Error ? error.message : String(error)
ErrorMessageOf(error) ==
  CASE error.type = "Error" -> error.message
    [] error.type = "string" -> error.text
    [] error.type = "null" -> "null"
    [] error.type = "undefined" -> "undefined"

\* { content: [{ type: "text", text }] }, the text as a list of its parts.
TextResult(text) == [content |-> << [type |-> "text", text |-> text] >>]
ErrorResult(text) == [content |-> << [type |-> "text", text |-> text, isError |-> TRUE] >>]

\* The advice getLatestFlightPlan appends to its error.
ErrorAdvice(tool) ==
  IF tool = "getLatestFlightPlan" THEN << "\n\nPlease verify:" >> ELSE << >>

\* The parameters a tool fetches the flight plan with.
ParamsOfTool(tool, args) ==
  IF tool \in { "getFlightPlanById", "getFlightPlanByIdSummary" }
  THEN [userId |-> args.userId, planId |-> args.planId]
  ELSE [userId |-> args.userId]

\* formatNotamSection(icao, airport.notam || []) of getNotams; a
\* TypeError when notam is neither empty nor an array.
formatNotamSection(airport) ==
  LET notams == IF "notam" \in DOMAIN airport THEN airport.notam ELSE JsArray(<< >>)
  IN  IF notams.type # "array" THEN Throw("notams.map is not a function")
      ELSE Return(Rows(notams.items, NotamRow))

\* The airports getNotams reports on, in the order of its sections.
SectionsOf(airport) ==
  IF airport = "all" THEN << "origin", "destination", "alternate" >> ELSE << airport >>

\* The text of getNotams for a fetched flight plan.
NotamsText(content, airport) ==
  LET section(n) == formatNotamSection(ObjectOr(content, SectionsOf(airport)[n]))
      count == Len(SectionsOf(airport))
  IN  IF \E n \in 1..count : section(n).threw
      THEN Throw("notams.map is not a function")
      ELSE Return([formatter |-> "getNotams",
                   sections |-> [n \in 1..count |-> section(n).val]])

\* What a tool makes of a fetched flight plan.
FormatFor(tool, args, content) ==
  CASE tool \in { "getLatestFlightPlan", "getFlightPlanById" } ->
         formatFlightPlanMarkdown(content)
    [] tool = "getDispatchBriefing" ->
         Return([formatter |-> "formatDispatchBriefing", of |-> content])
    [] tool = "getLatestFlightPlanSummary" ->
         Return([formatter |-> "formatFlightPlanSummary", of |-> content])
    [] tool = "getFlightPlanByIdSummary" ->
         Return([formatter |-> "formatFlightPlanSummary", of |-> content,
                 planId |-> args.planId])
    [] tool = "getNotams" -> NotamsText(content, args.airport)

\* The handler registered for a tool, the API answering as given.
ToolHandler(tool, args, answer) ==
  LET result == fetchSimBriefFlightPlan(ParamsOfTool(tool, args), answer)
  IN  IF result.threw THEN Throw(ErrorOf(result.val))
      ELSE IF result.val.isError
      THEN Return(ErrorResult(<< "**Error**", "\n\n" >> \o result.val.error \o ErrorAdvice(tool)))
      ELSE LET text == FormatFor(tool, args, result.val.content)
           IN  IF text.threw THEN Throw(ErrorOf(text.val)) ELSE Return(TextResult(text.val))

\* As SpanCallback, without the catch block.
SpanCallbackRethrowing(outcome, eventId) == outcome

\* The callback of Sentry.startSpan: try { return await handler(args) }
\* catch (error) { return the error as a text item }.
SpanCallback(outcome, eventId) ==
  IF outcome.threw
  THEN Return(ErrorResult(<< "**Error**", "\n\n", ErrorMessageOf(outcome.val) >>
                          \o (IF eventId # "" THEN << "\n\nError ID: ", eventId >> ELSE << >>)))
  ELSE outcome

\* wrapWithSentry(toolName, handler)(args), the handler ending as given.
\* The arguments of a tool are strings, which the span attributes take
\* as they are.
wrapWithSentry(toolName, outcome, sentryEnabled, eventId) ==
  IF ~sentryEnabled THEN outcome ELSE SpanCallback(outcome, eventId)

\* Flight plans: navlogs of every length, NOTAM lists of every length in
\* four mixes of critical and other NOTAMs, SIGMET lists of every length,
\* and the single object SimBrief sends in place of a list of one.
Fix(i) == [type |-> "object", ident |-> ToString(i)]
Navlogs ==
  { JsArray([i \in 1..len |-> Fix(i)]) : len \in 0..MaxNavlogLen }
  \cup { JsArray([i \in 1..len |-> Fix(0)]) : len \in { MaxNavlogLen } }
  \cup { Fix(1) }
Notam(category, status, i) ==
  [type |-> "object", notam_qcode_category |-> category, notam_qcode_status |-> status,
   notam_id |-> ToString(i)]
NotamMixes == { "category", "status", "none", "alternating" }
NotamOf(mix, i) ==
  CASE mix = "category" -> Notam("Runway", "Open", i)
    [] mix = "status" -> Notam("Airspace", "Closed", i)
    [] mix = "none" -> Notam("Airspace", "Open", i)
    [] mix = "alternating" -> IF i % 2 = 0 THEN Notam("Lighting", "Unserviceable", i)
                              ELSE Notam("Other", "", i)
NotamLists ==
  { JsArray([i \in 1..len |-> NotamOf(mix, i)]) : len \in 0..MaxNotams, mix \in NotamMixes }
  \cup { NotamOf("category", 1) }
SigmetLists ==
  { JsArray([i \in 1..len |-> [type |-> "object", id |-> ToString(i)]]) : len \in 0..MaxSigmets }
  \cup { [type |-> "object", id |-> "1"] }
Airport(notams) == [type |-> "object", notam |-> notams]
FlightPlans ==
  { [type |-> "object", navlog |-> [type |-> "object", fix |-> navlog],
     origin |-> Airport(o), destination |-> Airport(d), alternate |-> Airport(a),
     sigmets |-> [type |-> "object", sigmet |-> s]] :
      navlog \in Navlogs, o \in NotamLists,
      d \in { JsArray([i \in 1..MaxNotams |-> NotamOf("status", i)]) },
      a \in { JsArray([i \in 1..2 |-> NotamOf("alternating", i)]) },
      s \in SigmetLists }
  \cup { [type |-> "object"],
         [type |-> "object", origin |-> [type |-> "object"],
          destination |-> Airport(NotamOf("status", 1))] }

ApplyFormatFlightPlanMarkdown ==
  /\ call = NoCall
  /\ \E data \in FlightPlans :
       /\ call' = [fn |-> "formatFlightPlanMarkdown", data |-> data]
       /\ ret' = formatFlightPlanMarkdown(data)
  /\ UNCHANGED << COOKIE_ENCRYPTION_KEY, ALLOWED_USERNAMES, issued, grants, req, resp, calls,
                  redirects, inflight, fetching >>

\* What the SimBrief API may answer.
FlightPlan(fields) == [type |-> "object"] @@ fields
FetchOf(status, fields) == "fetch" :> ([type |-> "object", status |-> status] @@ fields)
SimBriefPayloads ==
  { JsNull, JsNumber, JsString(<< "o", "k" >>), JsArray(<< >>),
    FlightPlan(EmptyObject),
    FlightPlan("fetch" :> JsNull),
    FlightPlan("fetch" :> [type |-> "object"]),
    FlightPlan(FetchOf("Success", EmptyObject)),
    FlightPlan(FetchOf("Error", EmptyObject)),
    FlightPlan(FetchOf("Error", "message" :> "")),
    FlightPlan(FetchOf("Error", "message" :> "Invalid user id")),
    FlightPlan("origin" :> Airport(JsArray(<< NotamOf("category", 1), NotamOf("none", 2) >>))),
    FlightPlan("origin" :> [type |-> "object"]
               @@ "destination" :> Airport(NotamOf("status", 1))) }
SimBriefAnswers ==
  { NetworkError, HttpResponse(FALSE, NotJson), HttpResponse(TRUE, NotJson) }
  \cup { HttpResponse(ok, JsonStringify(payload)) : ok \in BOOLEAN, payload \in SimBriefPayloads }
SimBriefParams ==
  { [userId |-> "12345"], [userId |-> "12345", planId |-> "777"],
    [userId |-> "", apiKey |-> "key"] }

ApplyFetchSimBriefFlightPlan ==
  /\ call = NoCall
  /\ \E params \in SimBriefParams, answer \in SimBriefAnswers :
       /\ call' = [fn |-> "fetchSimBriefFlightPlan", params |-> params, answer |-> answer]
       /\ ret' = fetchSimBriefFlightPlan(params, answer)
  /\ UNCHANGED << COOKIE_ENCRYPTION_KEY, ALLOWED_USERNAMES, issued, grants, req, resp, calls,
                  redirects, inflight, fetching >>

\* The calls of the tools, and the endings of a wrapped handler.
ToolArgs(tool) ==
  CASE tool \in { "getFlightPlanById", "getFlightPlanByIdSummary" } ->
         { [userId |-> "12345", planId |-> "777"] }
    [] tool = "getNotams" ->
         { [userId |-> "12345", airport |-> a] :
             a \in { "all", "origin", "destination", "alternate" } }
    [] OTHER -> { [userId |-> "12345"] }
EventIds == { "", "e1f0" }
HandlerOutcomes ==
  { Return(TextResult(<< "ok" >>)), Return(JsNull),
    Return(ErrorResult(<< "**Error**", "\n\n", "no plan" >>)),
    Throw(ErrorOf("boom")), Throw(ErrorOf("")), Throw(ThrownString("oops")),
    Throw(JsNull), Throw(JsUndefined) }

ApplyTool ==
  /\ call = NoCall
  /\ \E tool \in Tools, answer \in SimBriefAnswers, sentryEnabled \in BOOLEAN,
        eventId \in EventIds :
       \E args \in ToolArgs(tool) :
         /\ call' = [fn |-> "tool", tool |-> tool, args |-> args, answer |-> answer,
                     sentryEnabled |-> sentryEnabled, eventId |-> eventId]
         /\ ret' = wrapWithSentry(tool, ToolHandler(tool, args, answer), sentryEnabled, eventId)
  /\ UNCHANGED << COOKIE_ENCRYPTION_KEY, ALLOWED_USERNAMES, issued, grants, req, resp, calls,
                  redirects, inflight, fetching >>

ApplyWrapWithSentry ==
  /\ call = NoCall
  /\ \E outcome \in HandlerOutcomes, sentryEnabled \in BOOLEAN, eventId \in EventIds :
       /\ call' = [fn |-> "wrapWithSentry", outcome |-> outcome,
                   sentryEnabled |-> sentryEnabled, eventId |-> eventId]
       /\ ret' = wrapWithSentry("tool", outcome, sentryEnabled, eventId)
  /\ UNCHANGED << COOKIE_ENCRYPTION_KEY, ALLOWED_USERNAMES, issued, grants, req, resp, calls,
                  redirects, inflight, fetching >>

InitUtil ==
  /\ COOKIE_ENCRYPTION_KEY = KeyOne
  /\ ALLOWED_USERNAMES \in AllowLists
  /\ issued = {}
  /\ grants = {}
  /\ req = NoRequest
  /\ resp = NoResponse
  /\ calls = << >>
  /\ call = NoCall
  /\ ret = NoCall
  /\ fetching = NotFetching
  /\ inflight = [a \in Attempts |-> Idle]
  /\ redirects = {}

NextUtil ==
  \/ ApplyParseCookieHeader
  \/ ApplyClientIdAlreadyApproved
  \/ ApplySignVerify
  \/ ApplyCheckUserIsAllowed
  \/ ApplyValidateIcaoCodes
  \/ ApplyGetVatsimAtis
  \/ ApplyStateRoundTrip
  \/ ApplyFetchSimBriefFlightPlan
  \/ ApplyFormatFlightPlanMarkdown
  \/ ApplyTool
  \/ ApplyWrapWithSentry

\* The helpers of oauth-utils and allowed-users, each applied on its own.
SpecUtil == InitUtil /\ [][NextUtil]_vars

(***************************************************************************)
(* Properties of the consent step (SpecAuthorize).                         *)
(***************************************************************************)
UpstreamAuthorizeUrl == "https://accounts.google.com/o/oauth2/v2/auth"
IsUpstreamRedirect(response) ==
  response.status = 302 /\ response.location.url = UpstreamAuthorizeUrl
IsConsentPage(response) == response.status = 200 /\ response.page = "Approve Access"

\* The browser presents both cookies of the issue i, under its client's names.
Presents(presented, i) ==
  /\ \E n \in 1..Len(presented) :
       presented[n] = Cookie(ClientPrefix \o i.clientId \o ApprovedSuffix, i.approved)
  /\ \E n \in 1..Len(presented) :
       presented[n] = Cookie(ClientPrefix \o i.clientId \o SignatureSuffix, i.signature)

\* An issue for the client of the GET /authorize being answered, signed
\* under the secret in force and presented with the request.
PresentsOwnApproval ==
  /\ req.route = "GET /authorize"
  /\ \E i \in issued : /\ i.clientId = req.oauthReqInfo.clientId
                       /\ i.key = COOKIE_ENCRYPTION_KEY
                       /\ Presents(req.presented, i)

\* C1: a POST /authorize that succeeds for client C answers with the two
\* cookies client_C_approved (value "true") and client_C_signature, and
\* every later GET /authorize for C that presents the cookies of such an
\* answer, under the secret that signed them, is answered 302 to the
\* upstream provider and not with the consent page.
C1_ApprovedClientSkipsConsent ==
  /\ (req.route = "POST /authorize" /\ resp.status = 302) =>
       LET c == req.form.of.oauthReqInfo.clientId
       IN  /\ Len(resp.setCookie) = 2
           /\ resp.setCookie[1].name = ClientPrefix \o c \o ApprovedSuffix
           /\ resp.setCookie[1].value = TrueLiteral
           /\ resp.setCookie[2].name = ClientPrefix \o c \o SignatureSuffix
           /\ \E i \in issued : i.clientId = c /\ i.key = COOKIE_ENCRYPTION_KEY
                                /\ i.signature = resp.setCookie[2].value
  /\ PresentsOwnApproval => IsUpstreamRedirect(resp) /\ ~IsConsentPage(resp)

\* C1 witness: a GET /authorize presenting cookies issued earlier for its
\* client is redirected upstream.
C1_Witness == PresentsOwnApproval /\ IsUpstreamRedirect(resp) /\ resp.setCookie = << >>

\* C5: a GET /authorize for client C skips consent only if the server
\* issued approval cookies for C itself.
C5_ApprovalBoundToClient ==
  (req.route = "GET /authorize" /\ IsUpstreamRedirect(resp)) =>
    \E i \in issued : i.clientId = req.oauthReqInfo.clientId

\* C7: on a cookie header with a malformed escape or a signature that is
\* not hex, the approval check answers false without throwing, so that
\* GET /authorize renders the consent page.
C7_ApprovalCheckFailsClosed ==
  (/\ req.route = "GET /authorize"
   /\ Truthy(req.oauthReqInfo.clientId)
   /\ req.presented \in TamperedCookies) => IsConsentPage(resp)

(***************************************************************************)
(* Properties of the helpers (SpecUtil).                                   *)
(***************************************************************************)
\* The hex digits of a string read two by two, most significant first.
RECURSIVE StrictHexBytes(_)
StrictHexBytes(hex) ==
  IF Len(hex) < 2 THEN << >>
  ELSE << 16 * HexValue(hex[1]) + HexValue(hex[2]) >> \o StrictHexBytes(SubSeq(hex, 3, Len(hex)))

\* signature is the hex encoding of the HMAC of data under the secret.
IsHmacOf(signature, secret, data) ==
  /\ Len(signature) = 2 * MacLen
  /\ \A n \in 1..Len(signature) : IsHexDigit(signature[n])
  /\ StrictHexBytes(signature) = Hmac([raw |-> Encode(secret)], Encode(data))

\* C4: clientIdAlreadyApproved returns, and returns true exactly when both
\* cookies of the client are sent, the flag is the string "true" and the
\* signature verifies for "true" under the secret; it returns false for an
\* absent cookie, a signature that does not verify and any other flag.
C4_ApprovedIffSignedTrue ==
  call.fn = "clientIdAlreadyApproved" =>
    /\ ~ret.threw
    /\ ret.val <=> /\ call.named = call.clientId
                   /\ call.flag # Undefined /\ call.signature # Undefined
                   /\ call.flag = TrueLiteral
                   /\ IsHmacOf(call.signature, call.encryptionKey, TrueLiteral)

C8_AllowListMembership ==
  call.fn = "checkUserIsAllowed" =>
    /\ ALLOWED_USERNAMES = {} => ret
    /\ ALLOWED_USERNAMES # {} => (ret <=> \E allowed \in ALLOWED_USERNAMES : allowed = call.username)
    /\ ALLOWED_USERNAMES = { Alice } =>
         (ret <=> call.username = << "a", "l", "i", "c", "e" >>)

\* C8 witness: under the list {"alice"}, "Alice" was refused.
C8_Witness ==
  /\ call.fn = "checkUserIsAllowed"
  /\ ALLOWED_USERNAMES = { Alice }
  /\ call.username = UpperAlice
  /\ ~ret

\* The name=value pairs of a header as the claim reads them: the header
\* split on ";", each piece trimmed, the name before the first "=" and the
\* value after it, both non-empty.
FirstEquals(piece) == CHOOSE n \in 1..Len(piece) : piece[n] = "=" /\ \A m \in 1..(n - 1) : piece[m] # "="
PairsOf(header) ==
  LET pieces == Split(header, ";")
  IN  { [name |-> SubSeq(Trim(pieces[n]), 1, FirstEquals(Trim(pieces[n])) - 1),
         value |-> SubSeq(Trim(pieces[n]), FirstEquals(Trim(pieces[n])) + 1, Len(Trim(pieces[n])))] :
        n \in { m \in 1..Len(pieces) :
                  /\ \E e \in 1..Len(Trim(pieces[m])) : Trim(pieces[m])[e] = "="
                  /\ FirstEquals(Trim(pieces[m])) \in 2..(Len(Trim(pieces[m])) - 1) } }

\* C9: on a header whose values are all well-formed escapes,
\* parseCookieHeader does not fault and maps the name of every name=value
\* pair to its URL-decoded value (a name given once); a header without "="
\* gives the empty mapping.
C9_ParseMapsEveryPair ==
  (/\ call.fn = "parseCookieHeader"
   /\ \A p \in PairsOf(call.cookieHeader) : ~decodeURIComponent(p.value).threw) =>
    /\ ~ret.threw
    /\ \A p \in PairsOf(call.cookieHeader) :
         (\A q \in PairsOf(call.cookieHeader) : q.name = p.name => q = p) =>
           /\ p.name \in DOMAIN ret.val
           /\ ret.val[p.name] = decodeURIComponent(p.value).val
    /\ (\A n \in 1..Len(call.cookieHeader) : call.cookieHeader[n] # "=") => DOMAIN ret.val = {}

(***************************************************************************)
(* Properties of the callback (SpecCallback).                              *)
(***************************************************************************)
\* The state parameter decodes to a request with a client id.
ValidState(param) ==
  /\ ~atob(param).threw
  /\ ~JsonParse(atob(param).val).threw
  /\ JsonParse(atob(param).val).val.type = "object"
  /\ Truthy(JsonParse(atob(param).val).val.clientId)
StateOf(param) == JsonParse(atob(param).val).val

\* An endpoint answered ok with a JSON object.
AnsweredObject(answer) ==
  /\ answer.kind = "http"
  /\ answer.ok
  /\ answer.body.enc = "json"
  /\ answer.body.of.type = "object"

\* The identity the user-info endpoint gave in this request, if it gave one.
IdentityGiven(made) ==
  /\ Len(made) >= 2
  /\ made[2].to = "userinfo"
  /\ AnsweredObject(made[2].answer)
  /\ Get(made[2].answer.body.of, "email") # Undefined
IdentityOf(made) == made[2].answer.body.of

\* The part of an address before its first "@".
LocalPart(email) ==
  SubSeq(email, 1, (CHOOSE n \in 1..Len(email) :
                      email[n] = "@" /\ \A m \in 1..(n - 1) : email[m] # "@") - 1)

Contains(text, piece) ==
  \E n \in 1..(Len(text) - Len(piece) + 1) : SubSeq(text, n, n + Len(piece) - 1) = piece

Completions(made) == { n \in 1..Len(made) : made[n].to = "completeAuthorization" }

\* The callback answered has a login the access policy rejects.
LoginRejected(made) ==
  /\ IdentityGiven(made)
  /\ ALLOWED_USERNAMES # {}
  /\ LocalPart(IdentityOf(made).email) \notin ALLOWED_USERNAMES

\* C2: a GET /callback whose login is rejected by the access policy is
\* answered 403 with a page containing that login, makes no call of
\* completeAuthorization and leaves the grants as they were.
C2_RejectedLoginDenied ==
  [][(req'.route = "GET /callback" /\ LoginRejected(calls')) =>
       /\ resp'.status = 403
       /\ Contains(resp'.text, LocalPart(IdentityOf(calls').email))
       /\ Completions(calls') = {}
       /\ grants' = grants]_vars

\* C2 witness: "eve" was denied after a grant had been stored.
C2_Witness ==
  /\ req.route = "GET /callback"
  /\ LoginRejected(calls)
  /\ LocalPart(IdentityOf(calls).email) = Eve
  /\ resp.status = 403
  /\ grants # {}

\* The callback answered had a valid state and a code, both upstream
\* endpoints succeeded and the login is allowed.
CallbackSucceeds ==
  /\ req.route = "GET /callback"
  /\ ValidState(req.state)
  /\ Truthy(req.code)
  /\ IdentityGiven(calls)
  /\ calls[1].to = "token"
  /\ AnsweredObject(calls[1].answer)
  /\ Get(calls[1].answer.body.of, "access_token") # Undefined
  /\ (ALLOWED_USERNAMES = {} \/ LocalPart(IdentityOf(calls).email) \in ALLOWED_USERNAMES)

\* C3: a callback with a valid state, a code, both upstream calls
\* succeeding and an allowed login calls completeAuthorization exactly once,
\* with props of the upstream access token, the full email, the local part
\* of the email as login and the display name (the login when the name is
\* missing or empty), and answers 302 to the redirectTo it returned.
C3_CompletesWithProps ==
  CallbackSucceeds =>
    LET identity == IdentityOf(calls)
        login == LocalPart(identity.email)
    IN  /\ Cardinality(Completions(calls)) = 1
        /\ calls[3].to = "completeAuthorization"
        /\ calls[3].options.props =
             [accessToken |-> calls[1].answer.body.of.access_token,
              email |-> identity.email,
              login |-> login,
              name |-> IF Get(identity, "name") \in { Undefined, << >> }
                       THEN login ELSE identity.name]
        /\ calls[3].options.request = StateOf(req.state)
        /\ resp.status = 302
        /\ resp.location = completeAuthorization(calls[3].options).redirectTo
        /\ resp.location.url = RedirectUriOf(StateOf(req.state).clientId)
        /\ calls[3].options \in grants

\* C3 witness: a completed callback for an identity without a display name.
C3_Witness ==
  /\ CallbackSucceeds
  /\ Get(IdentityOf(calls), "name") = Undefined
  /\ resp.status = 302
  /\ calls[3].options.props.name = Leonchike

\* C10: a GET /callback with a valid state and no code is answered 400
\* "Missing authorization code"; it contacts neither the token endpoint nor
\* the user-info endpoint, and stores no grant.
C10_MissingCodeRejected ==
  [][(/\ req'.route = "GET /callback"
      /\ ValidState(req'.state)
      /\ req'.code \in { Undefined, << >> }) =>
       /\ resp'.status = 400
       /\ resp'.page = "Missing authorization code"
       /\ calls' = << >>
       /\ grants' = grants]_vars

\* C10 witness: the callback came without a code parameter and was refused.
C10_Witness ==
  /\ req.route = "GET /callback"
  /\ ValidState(req.state)
  /\ req.code = Undefined
  /\ resp.status = 400
  /\ calls = << >>

\* The token endpoint was asked in this request and answered with a status
\* that is not a success.
TokenRefused(made) ==
  /\ Len(made) >= 1
  /\ made[1].to = "token"
  /\ made[1].answer.kind = "http"
  /\ ~made[1].answer.ok

\* C11: a GET /callback whose token exchange is answered with a
\* non-success status is answered 500 with the fixed text "Failed to
\* exchange authorization code", whatever the upstream body; the user-info
\* endpoint is not called and the grants stay as they were.
C11_TokenExchangeFailure ==
  [][(req'.route = "GET /callback" /\ TokenRefused(calls')) =>
       /\ resp'.status = 500
       /\ resp'.page = "Failed to exchange authorization code"
       /\ resp'.text = << >>
       /\ resp'.location = NoLocation
       /\ Len(calls') = 1
       /\ grants' = grants]_vars

\* C11 witness: the token endpoint refused with a body that is not JSON,
\* after a grant had been stored.
C11_Witness ==
  /\ req.route = "GET /callback"
  /\ TokenRefused(calls)
  /\ calls[1].answer.body = NotJson
  /\ resp.status = 500
  /\ grants # {}

\* The user-info endpoint was asked in this request and answered with a
\* status that is not a success.
IdentityRefused(made) ==
  /\ Len(made) >= 2
  /\ made[2].to = "userinfo"
  /\ made[2].answer.kind = "http"
  /\ ~made[2].answer.ok

\* C12: a GET /callback whose user-info call is answered with a non-success
\* status is answered 500 with the fixed text "Failed to fetch user info",
\* whatever the upstream body (a rejected identity included, which is not
\* answered 403); nothing is called after it and the grants stay as they were.
C12_IdentityFetchFailure ==
  [][(req'.route = "GET /callback" /\ IdentityRefused(calls')) =>
       /\ resp'.status = 500
       /\ resp'.page = "Failed to fetch user info"
       /\ resp'.text = << >>
       /\ resp'.location = NoLocation
       /\ Len(calls') = 2
       /\ grants' = grants]_vars

\* C12 witness: the user-info endpoint refused with the identity of "eve"
\* in its body, after a grant had been stored.
C12_Witness ==
  /\ req.route = "GET /callback"
  /\ IdentityRefused(calls)
  /\ calls[2].answer.body.enc = "json"
  /\ Get(calls[2].answer.body.of, "email") = Eve \o Domain
  /\ resp.status = 500
  /\ grants # {}

\* C13: a GET /callback whose state parameter is missing, is not base64,
\* is not JSON, or decodes to a value without a client id is answered 400
\* and makes no upstream call.
C13_InvalidStateRejected ==
  (req.route = "GET /callback" /\ ~ValidState(req.state)) =>
    /\ resp.status = 400
    /\ calls = << >>

\* The posted form state is JSON for an object that carries no client id.
FormLacksClientId(form) ==
  /\ form.enc = "json"
  /\ form.of.type = "object"
  /\ (form.of.oauthReqInfo.type # "object" \/ ~Truthy(form.of.oauthReqInfo.clientId))

\* The request answered is an authorize request without a client id.
LacksClientId ==
  \/ req.route = "GET /authorize" /\ ~Truthy(req.oauthReqInfo.clientId)
  \/ req.route = "POST /authorize" /\ FormLacksClientId(req.form)

\* C14: an authorize request without a client id, by GET or by POST, is
\* answered 400; the answer is not the consent page, sets no cookie and
\* does not redirect upstream.
C14_MissingClientIdRejected ==
  LacksClientId =>
    /\ resp.status = 400
    /\ ~IsConsentPage(resp)
    /\ resp.setCookie = << >>
    /\ ~IsUpstreamRedirect(resp)

\* C15: every cookie directive of every response of the authorize routes is
\* named client_{clientId}_approved or client_{clientId}_signature for the
\* client of the consent submission answered, and carries Path=/, HttpOnly,
\* Secure, SameSite=Strict and an expiry one year after its issue.
C15_CookieAttributes ==
  \A n \in 1..Len(resp.setCookie) :
    LET directive == resp.setCookie[n]
    IN  /\ req.route = "POST /authorize"
        /\ req.form.enc = "json"
        /\ directive.name \in
             { ClientPrefix \o req.form.of.oauthReqInfo.clientId \o ApprovedSuffix,
               ClientPrefix \o req.form.of.oauthReqInfo.clientId \o SignatureSuffix }
        /\ directive.path = "/"
        /\ directive.httpOnly
        /\ directive.secure
        /\ directive.sameSite = "Strict"
        /\ directive.expiresInYears = 1

\* C15 witness: cookies were issued under the second secret.
C15_Witness ==
  /\ Len(resp.setCookie) = 2
  /\ COOKIE_ENCRYPTION_KEY = KeyTwo
  /\ resp.setCookie[2].secure

ReportedUnverified(made) ==
  /\ IdentityGiven(made)
  /\ "verified_email" \in DOMAIN IdentityOf(made)
  /\ ~IdentityOf(made).verified_email

\* C17: a GET /callback whose user-info answer reports the email as not
\* verified never calls completeAuthorization and is not answered with the
\* redirect to the client.
C17_UnverifiedEmailRefused ==
  (req.route = "GET /callback" /\ ReportedUnverified(calls)) =>
    /\ Completions(calls) = {}
    /\ resp.status # 302

\* An upstream call of the log failed: no HTTP answer, a status that is not
\* a success, or a success whose body lacks the field the handler reads.
CallFailed(made, n) ==
  /\ made[n].to \in { "token", "userinfo" }
  /\ \/ made[n].answer.kind = "networkError"
     \/ ~made[n].answer.ok
     \/ made[n].answer.body.enc # "json"
     \/ made[n].to = "token" /\ Get(made[n].answer.body.of, "access_token") = Undefined
     \/ made[n].to = "userinfo" /\ Get(made[n].answer.body.of, "email") = Undefined
UpstreamFailed(made) == \E n \in 1..Len(made) : CallFailed(made, n)

\* C20: every GET /callback is answered 302, 400, 403 or 500, and one with
\* a failed upstream call is answered 500 by the handler itself, not by the
\* framework for an exception the handler let escape.
C20_FailuresConverted ==
  req.route = "GET /callback" =>
    /\ resp.status \in { 302, 400, 403, 500 }
    /\ UpstreamFailed(calls) => (resp.status = 500 /\ resp # FaultResponse)

(***************************************************************************)
(* Properties of vatsim-api (SpecUtil).                                    *)
(***************************************************************************)
AsciiLetters ==
  { "a", "b", "c", "d", "e", "f", "g", "h", "i", "j", "k", "l", "m",
    "n", "o", "p", "q", "r", "s", "t", "u", "v", "w", "x", "y", "z",
    "A", "B", "C", "D", "E", "F", "G", "H", "I", "J", "K", "L", "M",
    "N", "O", "P", "Q", "R", "S", "T", "U", "V", "W", "X", "Y", "Z" }

\* The element is a string of exactly four letters.
FourLetters(element) ==
  /\ element.type = "string"
  /\ Len(element.chars) = 4
  /\ \A n \in 1..4 : element.chars[n] \in AsciiLetters

\* The argument is one the claim says validateIcaoCodes throws for.
IcaoArgumentRefused(icaoCodes) ==
  \/ icaoCodes.type # "array"
  \/ Len(icaoCodes.items) = 0
  \/ Len(icaoCodes.items) > 20
  \/ \E n \in 1..Len(icaoCodes.items) : ~FourLetters(icaoCodes.items[n])

\* C18: validateIcaoCodes throws for an argument that is no array, is
\* empty, has more than 20 codes, or has an element that is not a string of
\* exactly four letters; otherwise it returns the codes in upper case, as
\* many and in the same order.
C18_ValidateIcaoCodes ==
  call.fn = "validateIcaoCodes" =>
    IF IcaoArgumentRefused(call.icaoCodes) THEN ret.threw
    ELSE /\ ~ret.threw
         /\ Len(ret.val) = Len(call.icaoCodes.items)
         /\ \A n \in 1..Len(ret.val) : ret.val[n] = Upper(call.icaoCodes.items[n].chars)

\* The feed of the call holds an entry with exactly this callsign.
InFeed(callsign) ==
  \E k \in 1..Len(call.fetched.val.atis.items) :
    call.fetched.val.atis.items[k].callsign = callsign

\* The ATIS of an airport is reported exactly when the feed holds its callsign.
ReportedIffInFeed(atis, callsign) ==
  /\ atis.type \in { "object", "null" }
  /\ atis.type = "object" <=> InFeed(callsign)
  /\ atis.type = "object" => atis.callsign = callsign

\* C19: a getVatsimAtis that returns gives one airport per requested code,
\* in request order; combined, arrival and departure are non-null exactly
\* when the feed holds the callsign {ICAO}_ATIS, {ICAO}_A_ATIS, {ICAO}_D_ATIS;
\* hasActiveAtis says whether one of the three is non-null, and activeCount
\* counts the airports for which it is true.
C19_AtisPerAirport ==
  (call.fn = "getVatsimAtis" /\ ~ret.threw) =>
    LET codes == call.icaoCodes.items
        airports == ret.val.airports
    IN  /\ Len(airports) = Len(codes)
        /\ \A n \in 1..Len(codes) :
             LET icao == Upper(codes[n].chars)
                 airport == airports[n]
             IN  /\ airport.icao = icao
                 /\ ReportedIffInFeed(airport.combined, icao \o << "_", "A", "T", "I", "S" >>)
                 /\ ReportedIffInFeed(airport.arrival,
                                      icao \o << "_", "A", "_", "A", "T", "I", "S" >>)
                 /\ ReportedIffInFeed(airport.departure,
                                      icao \o << "_", "D", "_", "A", "T", "I", "S" >>)
                 /\ airport.hasActiveAtis <=> \/ airport.combined.type = "object"
                                              \/ airport.arrival.type = "object"
                                              \/ airport.departure.type = "object"
        /\ ret.val.activeCount =
             Cardinality({ n \in 1..Len(airports) : airports[n].hasActiveAtis })

\* C19 witness: two airports were asked for in lower and upper case, one
\* with an arrival ATIS only and one without any, in a feed that also holds
\* a callsign in lower case.
C19_Witness ==
  /\ call.fn = "getVatsimAtis"
  /\ ~ret.threw
  /\ Len(ret.val.airports) = 2
  /\ ret.val.activeCount = 1
  /\ ret.val.airports[1].arrival.type = "object"
  /\ ret.val.airports[1].combined.type = "null"
  /\ ~ret.val.airports[2].hasActiveAtis
  /\ InFeed(Kjfk \o AtisSuffix)

(***************************************************************************)
(* Properties of an authorization attempt as a whole (SpecFlow).           *)
(***************************************************************************)
\* C21: every grant is for an authorization request this server placed as
\* state in a redirect to the upstream provider; a callback whose state
\* the server never placed completes no authorization.
C21_OnlyPlacedStatesComplete ==
  \A grant \in grants : Base64Of(JsonStringify(grant.request)) \in redirects

(***************************************************************************)
(* Properties of the state round trips (SpecUtil).                         *)
(***************************************************************************)
\* C22: for every AuthRequest r, the state redirectToGoogle places decodes
\* back to r in /callback, the hidden field of the consent page posts back
\* as {oauthReqInfo: r}, and neither way throws.
C22_StateRoundTrips ==
  call.fn = "stateRoundTrip" =>
    /\ ret.redirect = Return(call.r)
    /\ ret.form = Return([type |-> "object", oauthReqInfo |-> call.r])

(***************************************************************************)
(* Properties of the upstream calls of one callback (SpecCallback).        *)
(***************************************************************************)
\* The positions of the log at which the given endpoint was called.
CallsTo(made, endpoint) == { n \in 1..Len(made) : made[n].to = endpoint }

\* The call at position n got no answer, a status that is not a success,
\* or a body that is no JSON.
CallRefused(made, n) ==
  /\ made[n].to \in { "token", "userinfo" }
  /\ \/ made[n].answer.kind = "networkError"
     \/ ~made[n].answer.ok
     \/ made[n].answer.body.enc # "json"

OtherDomains == { << "@", "x", ".", "i", "o" >>, << "@", "G", ".", "C", "O" >>, << "@" >> }

\* The callback being answered, run again with the user-info endpoint
\* reporting the same identity under another domain.
UnderDomain(domain) ==
  HandleCallback([method |-> "GET", path |-> "/callback", state |-> req.state, code |-> req.code],
                 Env,
                 [token |-> calls[1].answer,
                  userinfo |-> [calls[2].answer EXCEPT
                                  !.body.of.email = LocalPart(@) \o domain]])

\* The logins in the props of the authorizations a log completes.
LoginsCompleted(made) == { made[n].options.props.login : n \in Completions(made) }

\* C24: two callbacks that differ only in the domain of the address the
\* upstream reports are both allowed or both denied, with the same answer
\* status, and the login placed in the props is the same.
C24_DecisionByLocalPart ==
  (req.route = "GET /callback" /\ IdentityGiven(calls)) =>
    \A domain \in OtherDomains :
      /\ UnderDomain(domain).resp.status = resp.status
      /\ resp.status \in { 302, 403 }
      /\ LoginsCompleted(UnderDomain(domain).calls) = LoginsCompleted(calls)
      /\ resp.status = 403 => UnderDomain(domain).resp = resp

\* C24 witness: an allowed login completed its authorization, and does so
\* under another domain.
C24_Witness ==
  /\ req.route = "GET /callback"
  /\ IdentityGiven(calls)
  /\ resp.status = 302
  /\ LoginsCompleted(calls) = { Leonchike }
  /\ UnderDomain(<< "@", "x", ".", "i", "o" >>).resp.status = 302
  /\ UnderDomain(<< "@", "x", ".", "i", "o" >>).grants # grants

(***************************************************************************)
(* Replay of a callback (SpecFlow).                                        *)
(***************************************************************************)
\* C25: a GET /callback that repeats the code and state of the completed
\* callback before it asks the token endpoint again; when the endpoint
\* refuses the code, the replay is answered with the 500 of the failed
\* exchange, completes no authorization and stores no grant.
C25_ReplayFailsUpstream ==
  [][(/\ req.route = "GET /callback" /\ resp.status = 302
      /\ req'.route = "GET /callback"
      /\ req'.state = req.state /\ req'.code = req.code) =>
       /\ Len(calls') >= 1
       /\ calls'[1].to = "token"
       /\ calls'[1].code = req.code
       /\ (calls'[1].answer.kind = "http" /\ ~calls'[1].answer.ok) =>
            /\ Len(calls') = 1
            /\ resp' = TextResponse("Failed to exchange authorization code", 500)
            /\ grants' = grants]_vars

\* C25 witness: the callback answered was refused at the token endpoint
\* after a callback with the same state and code had stored its grant.
C25_Witness ==
  /\ req.route = "GET /callback"
  /\ Len(calls) = 1
  /\ calls[1].to = "token"
  /\ calls[1].code = AuthCode
  /\ calls[1].answer = RefusedCode
  /\ resp = TextResponse("Failed to exchange authorization code", 500)
  /\ \E grant \in grants : Base64Of(JsonStringify(grant.request)) = req.state

(***************************************************************************)
(* Callbacks answered at the same time (SpecConcurrent).                   *)
(***************************************************************************)
\* What a callback gets when no other request is made: the handler run in
\* one piece on the request and the answers of the upstream endpoints.
Alone(a) == HandleCallback(inflight[a].request, Env, inflight[a].upstream)

\* C26: under every interleaving a callback is answered as when it runs
\* alone, makes the calls and stores the grant it makes alone, and the
\* allow-list stays the one configured.
C26_AttemptsIndependent ==
  /\ ALLOWED_USERNAMES = ShippedAllowList
  /\ \A a \in Attempts :
       inflight[a].pc = "done" =>
         /\ inflight[a].resp = Alone(a).resp
         /\ inflight[a].made = Alone(a).calls
         /\ Alone(a).grants \subseteq grants

\* C26 witness: two callbacks of different clients and users, with
\* different tokens, are both answered: one completed, one denied.
C26_Witness ==
  /\ inflight[1].pc = "done" /\ inflight[2].pc = "done"
  /\ inflight[1].resp.status = 302
  /\ inflight[2].resp.status = 403
  /\ inflight[1].oauthReqInfo.clientId = ClientOne
  /\ inflight[2].oauthReqInfo.clientId = ClientTwo
  /\ inflight[1].accessToken = UpstreamToken
  /\ inflight[2].accessToken = SecondToken

(***************************************************************************)
(* Termination of fetchVatsimData (SpecVatsim).                            *)
(***************************************************************************)
\* C27: every call of fetchVatsimData completes: with the data or an error
\* of the endpoint, or, when the endpoint has not delivered status and
\* body by the time the timer fires, with the timeout error.
C27_FetchCompletes == (fetching.pc = "fetch") ~> (fetching.pc = "done")

(***************************************************************************)
(* Properties of simbrief-api (SpecUtil).                                  *)
(***************************************************************************)
\* The API's answer is one the claim lists as an error: the request failed,
\* the status is no success, the body is no JSON, the payload is no
\* object, or its fetch.status is "Error".
SimBriefFailure(answer) ==
  \/ answer.kind = "networkError"
  \/ ~answer.ok
  \/ answer.body.enc # "json"
  \/ answer.body.of.type \in { "null", "number", "string" }
  \/ /\ "fetch" \in DOMAIN answer.body.of
     /\ answer.body.of.fetch.type = "object"
     /\ "status" \in DOMAIN answer.body.of.fetch
     /\ answer.body.of.fetch.status = "Error"

\* C28: fetchSimBriefFlightPlan never throws; for an answer that is an
\* error it returns empty content, isError true and an error message, for
\* every other answer the payload as content, isError false and no error
\* field; isError is true exactly when error is set.
C28_SimBriefNeverThrows ==
  call.fn = "fetchSimBriefFlightPlan" =>
    /\ ~ret.threw
    /\ ret.val.isError <=> "error" \in DOMAIN ret.val
    /\ SimBriefFailure(call.answer) =>
         /\ ret.val.isError
         /\ ret.val.content = [type |-> "object"]
         /\ DOMAIN ret.val = { "content", "error", "isError" }
    /\ ~SimBriefFailure(call.answer) =>
         ret.val = [content |-> call.answer.body.of, isError |-> FALSE]

\* C28 witness: a payload that is null made the "in" test throw, and the
\* error was returned.
C28_Witness ==
  /\ call.fn = "fetchSimBriefFlightPlan"
  /\ call.answer.kind = "http" /\ call.answer.ok
  /\ call.answer.body.enc = "json"
  /\ call.answer.body.of = JsNull
  /\ ~ret.threw
  /\ ret.val.isError
  /\ ret.val.error[1] = "An error occurred: "

(***************************************************************************)
(* Properties of register-simbrief-tools (SpecUtil).                       *)
(***************************************************************************)
\* The result is a single text item flagged isError whose text begins
\* with "**Error**" and holds the given message.
IsErrorItem(result, message) ==
  /\ DOMAIN result = { "content" }
  /\ Len(result.content) = 1
  /\ DOMAIN result.content[1] = { "type", "text", "isError" }
  /\ result.content[1].type = "text"
  /\ result.content[1].isError
  /\ result.content[1].text[1] = "**Error**"
  /\ \E n \in 1..Len(result.content[1].text) : result.content[1].text[n] = message

\* What String(value) and error.message give for the thrown values.
MessageThrown(error) ==
  IF error = JsNull THEN "null"
  ELSE IF error = JsUndefined THEN "undefined"
  ELSE IF "message" \in DOMAIN error THEN error.message
  ELSE error.text

\* C29: with Sentry enabled a wrapped handler never rejects: a handler
\* that throws gives a single error item beginning with "**Error**" and
\* holding the message, a handler that succeeds gives its own result; and
\* every tool answers an error of fetchSimBriefFlightPlan with such an
\* error item and formats nothing.
C29_WrappedToolsReportErrors ==
  /\ (call.fn = "wrapWithSentry" /\ call.sentryEnabled) =>
       /\ ~ret.threw
       /\ call.outcome.threw => IsErrorItem(ret.val, MessageThrown(call.outcome.val))
       /\ ~call.outcome.threw => ret = call.outcome
  /\ (call.fn = "tool" /\ call.sentryEnabled) => ~ret.threw
  /\ (call.fn = "tool" /\ SimBriefFailure(call.answer)) =>
       /\ ~ret.threw
       /\ \E message \in { "status", "fetch failed", "Unexpected token", "Unknown error",
                           "Invalid user id", "Cannot use 'in' operator to search for 'fetch'" } :
            IsErrorItem(ret.val, message)

\* C29 witness: getNotams threw on a NOTAM that is no array, and the
\* wrapper answered with the error item and the event id.
C29_Witness ==
  /\ call.fn = "tool"
  /\ call.tool = "getNotams"
  /\ call.sentryEnabled
  /\ ~SimBriefFailure(call.answer)
  /\ ~ret.threw
  /\ "isError" \in DOMAIN ret.val.content[1]
  /\ ret.val.content[1].text
       = << "**Error**", "\n\n", "notams.map is not a function", "\n\nError ID: ", "e1f0" >>

(***************************************************************************)
(* Properties of format-flight-plan (SpecUtil).                            *)
(***************************************************************************)
\* The positions (from 1) of the fixes at indices 0, 5, 10, ... and of
\* the final fix of a navlog of n fixes.
KeyPositions(n) ==
  { i \in 1..n : (i - 1) % 5 = 0 } \cup (IF n > 0 THEN { n } ELSE { })

\* The k-th smallest member of a set of numbers.
Nth(set, k) == CHOOSE i \in set : Cardinality({ j \in set : j < i }) = k - 1

\* The fixes of the given navlog at the key positions, in navlog order.
KeyFixes(items) ==
  [k \in 1..Cardinality(KeyPositions(Len(items))) |->
     WaypointRow(items[Nth(KeyPositions(Len(items)), k)])]

Airports == { "origin", "destination", "alternate" }

\* C30: a markdown that formatFlightPlanMarkdown returns lists exactly the
\* navlog fixes at indices 0, 5, 10, ... and the final fix, in navlog
\* order and each once; at most 5 NOTAMs per airport, each of them
\* critical by category or by status; and at most 5 SIGMETs.
C30_ListsAreBounded ==
  (call.fn = "formatFlightPlanMarkdown" /\ ~ret.threw) =>
    /\ "navlog" \in DOMAIN call.data /\ call.data.navlog.fix.type = "array" =>
         ret.val.keyWaypoints = KeyFixes(call.data.navlog.fix.items)
    /\ \A airport \in Airports :
         /\ Len(ret.val.notams[airport]) <= 5
         /\ \A n \in 1..Len(ret.val.notams[airport]) :
              \/ ret.val.notams[airport][n].category
                   \in { "Runway", "Lighting", "Navigation", "Obstacle", "Aerodrome" }
              \/ ret.val.notams[airport][n].status
                   \in { "Closed", "Limited", "Irregular", "Unserviceable" }
    /\ Len(ret.val.sigmets.rows) <= 5

\* C30 witness: of seven fixes the first, the sixth and the last are
\* listed, of six critical NOTAMs of the origin five, and of six SIGMETs
\* five.
C30_Witness ==
  /\ call.fn = "formatFlightPlanMarkdown"
  /\ ~ret.threw
  /\ "navlog" \in DOMAIN call.data
  /\ call.data.navlog.fix.type = "array"
  /\ Len(call.data.navlog.fix.items) = 7
  /\ ret.val.keyWaypoints = << [ident |-> "1"], [ident |-> "6"], [ident |-> "7"] >>
  /\ call.data.origin.notam.type = "array"
  /\ Len(SelectSeq(call.data.origin.notam.items, IsCritical)) = 6
  /\ Len(ret.val.notams.origin) = 5
  /\ call.data.sigmets.sigmet.type = "array"
  /\ Len(call.data.sigmets.sigmet.items) = 6
  /\ Len(ret.val.sigmets.rows) = 5

=============================================================================
